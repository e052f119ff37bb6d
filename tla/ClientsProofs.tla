----------------------------- MODULE ClientsProofs -----------------------------
(***************************************************************************)
(* Theorems about what a client holds and what Management does with its    *)
(* requests, for every value of the constants.                             *)
(*                                                                         *)
(* Compile: what Management accepts the gates can install, which rests on  *)
(* what validateArtifactAdapters establishes about an artifact, whoever    *)
(* made it; what the compiler makes of accepted parts is accepted, and so  *)
(* is what it makes of any files; and the consent it selects is the least. *)
(* Mutations: a key has the record of the request that minted it, and a    *)
(* record is about the Angel that lives.  Dashboard: a secret is shown in  *)
(* the context that asked for it, and no action starts during another.     *)
(* ConnectionsPage: a row is locked while its own action is under way, and *)
(* by no other.                                                            *)
(***************************************************************************)
EXTENDS Compile, Mutations, Dashboard, ConnectionsPage, FiniteSetTheorems, SequenceTheorems, TLAPS

(* What is left of the validation once the registry that was consulted has *)
(* been superseded.                                                        *)
Installable(artifact) ==
  /\ \A t, u \in artifact.tools : t # u => Folded[u.name] # Folded[t.name]
  /\ \A r, s \in artifact.requirements : r.id = s.id => r = s
  /\ \A r \in artifact.requirements : \A name \in r.tools :
       \E t \in artifact.tools : t.name = name /\ t.provider = r.provider
  /\ Claimed(artifact)

InstallableInv == published # Failed => Installable(published)

(* The validator's checks, whichever the registry.                         *)
LEMMA AcceptedArtifact ==
  ASSUME NEW artifact, NEW slug, NEW registry, AssertArtifact(artifact, slug, registry)
  PROVE  Installable(artifact)
BY DEF AssertArtifact, ValidTools, ValidRequirements, Installable

-----------------------------------------------------------------------------
(* A binding says which requirement and tool it is for, and its provider   *)
(* is the tool's.                                                          *)
LEMMA BindingFacts ==
  ASSUME NEW artifact, Installable(artifact),
         NEW bindings \in [{r.id : r \in artifact.requirements} -> (SUBSET BoundConnections) \ {{}}],
         NEW b \in RuntimeBindingsFor(artifact, bindings)
  PROVE  \E r \in artifact.requirements, t \in artifact.tools :
           /\ t.name \in r.tools /\ t.provider = r.provider
           /\ b = [requirement |-> r.id, tool |-> t.name, connection |-> b.connection,
                   provider |-> r.provider]
<1>1. PICK r \in artifact.requirements :
        b \in {[requirement |-> r.id, tool |-> n, connection |-> c, provider |-> r.provider]
                 : n \in r.tools, c \in bindings[r.id]}
  BY DEF RuntimeBindingsFor
<1>2. PICK n \in r.tools, c \in bindings[r.id] :
        b = [requirement |-> r.id, tool |-> n, connection |-> c, provider |-> r.provider]
  BY <1>1
<1>3. PICK t \in artifact.tools : t.name = n /\ t.provider = r.provider
  BY DEF Installable
<1> QED
  BY <1>2, <1>3

(* No two bindings have the same tool, in any spelling, and Connection.    *)
LEMMA BindingsDistinct ==
  ASSUME NEW artifact, Installable(artifact),
         NEW bindings \in [{r.id : r \in artifact.requirements} -> (SUBSET BoundConnections) \ {{}}],
         NEW b \in RuntimeBindingsFor(artifact, bindings),
         NEW c \in RuntimeBindingsFor(artifact, bindings),
         Folded[b.tool] = Folded[c.tool], b.connection = c.connection
  PROVE  b = c
<1>1. PICK r \in artifact.requirements, t \in artifact.tools :
        /\ t.name \in r.tools /\ t.provider = r.provider
        /\ b = [requirement |-> r.id, tool |-> t.name, connection |-> b.connection,
                provider |-> r.provider]
  BY BindingFacts
<1>2. PICK s \in artifact.requirements, u \in artifact.tools :
        /\ u.name \in s.tools /\ u.provider = s.provider
        /\ c = [requirement |-> s.id, tool |-> u.name, connection |-> c.connection,
                provider |-> s.provider]
  BY BindingFacts
<1>3. b.tool = t.name /\ c.tool = u.name
  BY <1>1, <1>2
<1>4. t = u
  BY <1>3 DEF Installable
<1>5. r = s
  BY <1>1, <1>2, <1>4 DEF Installable, Claimed
<1> QED
  BY <1>1, <1>2, <1>4, <1>5

(* Every tool is bound to some Connection.                                 *)
LEMMA ToolsBound ==
  ASSUME NEW artifact, Installable(artifact),
         NEW bindings \in [{r.id : r \in artifact.requirements} -> (SUBSET BoundConnections) \ {{}}],
         NEW t \in artifact.tools
  PROVE  \E b \in RuntimeBindingsFor(artifact, bindings) : b.tool = t.name
<1>1. PICK r \in artifact.requirements : t.name \in r.tools
  BY DEF Installable, Claimed
<1>2. r.id \in {s.id : s \in artifact.requirements}
  OBVIOUS
<1>3. bindings[r.id] # {}
  BY <1>2
<1>4. PICK c \in bindings[r.id] : TRUE
  BY <1>3
<1> DEFINE b == [requirement |-> r.id, tool |-> t.name, connection |-> c, provider |-> r.provider]
<1>5. b \in RuntimeBindingsFor(artifact, bindings)
  BY <1>1, <1>4 DEF RuntimeBindingsFor
<1> QED
  BY <1>5

(* A gate accepts every choice of Connections for it.                      *)
LEMMA GateInstalls ==
  ASSUME NEW artifact, Installable(artifact),
         NEW bindings \in [{r.id : r \in artifact.requirements} -> (SUBSET BoundConnections) \ {{}}]
  PROVE  AssertBindings(artifact, RuntimeBindingsFor(artifact, bindings))
<1> DEFINE all == RuntimeBindingsFor(artifact, bindings)
<1>1. ASSUME NEW b \in all
      PROVE  \E t \in artifact.tools : Folded[t.name] = Folded[b.tool] /\ t.provider = b.provider
  <2>1. PICK r \in artifact.requirements, t \in artifact.tools :
          /\ t.name \in r.tools /\ t.provider = r.provider
          /\ b = [requirement |-> r.id, tool |-> t.name, connection |-> b.connection,
                  provider |-> r.provider]
    BY BindingFacts
  <2>2. b.tool = t.name /\ b.provider = t.provider
    BY <2>1
  <2> QED
    BY <2>2
<1>2. ASSUME NEW b \in all, NEW c \in all, b # c
      PROVE  <<Folded[b.tool], b.connection>> # <<Folded[c.tool], c.connection>>
  BY <1>2, BindingsDistinct
<1>3. ASSUME NEW t \in artifact.tools
      PROVE  \E b \in all : Folded[b.tool] = Folded[t.name]
  BY ToolsBound
<1> HIDE DEF all
<1> QED
  BY <1>1, <1>2, <1>3 DEF AssertBindings, all

-----------------------------------------------------------------------------
LEMMA InstallableInvStep == InstallableInv /\ [CompileNext]_compileVars => InstallableInv'
<1> SUFFICES ASSUME InstallableInv, [CompileNext]_compileVars PROVE InstallableInv'
  OBVIOUS
<1>1. CASE UNCHANGED published
  BY <1>1 DEF InstallableInv
<1>2. ASSUME NEW n \in LocalAngels, PublishArtifact(n) PROVE InstallableInv'
  BY <1>2, AcceptedArtifact DEF PublishArtifact, InstallableInv
<1>3. CASE DropVersions
  BY <1>3 DEF DropVersions, InstallableInv
<1> QED
  BY <1>1, <1>2, <1>3 DEF CompileNext, Edit, Upgrade, compileVars

(* A Version that Management has accepted (assertArtifact in               *)
(* src/src/management.ts) never makes a gate throw in the middle of a      *)
(* deployment (assertBindings in src/src/gate.ts), whichever Connections   *)
(* its requirements are bound to and however the registry of adapters has  *)
(* changed since.                                                          *)
THEOREM AcceptedIsAlwaysInstallable == CompileSpec => []AcceptedIsInstallable
<1>1. CompileInit => InstallableInv
  BY DEF CompileInit, InstallableInv
<1>2. InstallableInv => AcceptedIsInstallable
  BY GateInstalls DEF InstallableInv, AcceptedIsInstallable
<1> QED
  BY <1>1, <1>2, InstallableInvStep, PTL DEF CompileSpec
-----------------------------------------------------------------------------
(* What the compiler makes the validator accepts.                          *)

(* An artifact that the validator accepts, its requirements written as the *)
(* compiler writes them.                                                   *)
Formed(r) ==
  r = [id |-> r.id, source |-> r.source, provider |-> r.provider, tools |-> r.tools,
       requiredScopes |-> r.requiredScopes]

Accepted(artifact, slug, registry) ==
  /\ AssertArtifact(artifact, slug, registry)
  /\ \A r \in artifact.requirements : Formed(r)

LEMMA ArtifactMade ==
  ASSUME NEW name, NEW children, NEW tools, NEW requirements, NEW registry,
         Artifact(name, children, tools, requirements, registry) # Failed
  PROVE  Artifact(name, children, tools, requirements, registry) =
           [name |-> name, children |-> children, tools |-> tools,
            providers |-> ProvidersFor(tools, registry), requirements |-> requirements]
BY DEF Artifact

(* The checks on an artifact as it is made, one by one.                    *)
LEMMA AcceptedWhen ==
  ASSUME NEW name, NEW children, NEW tools, NEW requirements, NEW registry,
         Artifact(name, children, tools, requirements, registry) # Failed,
         tools # {},
         \A t \in tools : /\ t.provider = ProviderOf[t.name]
                          /\ t.provider \in DOMAIN registry.pin
                          /\ t.name \in DOMAIN registry.request
                          /\ t.request = registry.request[t.name],
         \A t, u \in tools : t # u => Folded[t.name] # Folded[u.name],
         \A r \in requirements : Formed(r),
         \A r, s \in requirements : r.id = s.id => r = s,
         \A r, s \in requirements : r # s => r.tools \cap s.tools = {},
         \A t \in tools : \E r \in requirements : t.name \in r.tools,
         \A r \in requirements :
           /\ r.tools # {} /\ r.requiredScopes = SelectRequiredScopes(registry, r.tools)
           /\ \A n \in r.tools : \E t \in tools : t.name = n /\ t.provider = r.provider
  PROVE  Accepted(Artifact(name, children, tools, requirements, registry), name, registry)
<1> DEFINE artifact == Artifact(name, children, tools, requirements, registry)
<1>1. /\ artifact.name = name /\ artifact.tools = tools
      /\ artifact.requirements = requirements
      /\ artifact.providers = ProvidersFor(tools, registry)
  BY ArtifactMade
<1> HIDE DEF artifact
<1>2. ValidProviders(artifact, registry)
  BY <1>1 DEF ValidProviders, ProvidersFor, ProvidersOf
<1>3. ValidTools(artifact, registry)
  BY <1>1 DEF ValidTools
<1>4. \A r \in requirements : r.requiredScopes # {}
  BY DEF Artifact
<1>5. ValidRequirements(artifact, registry)
  BY <1>1, <1>4 DEF ValidRequirements, Claimed
<1> QED
  BY <1>1, <1>2, <1>3, <1>5 DEF AssertArtifact, Accepted, artifact

(* The requirement a leaf has for one of its providers.                    *)
NamesOf(tools, p) == {t.name : t \in {u \in tools : u.provider = p}}

LeafRequirement(source, tools, registry, p) ==
  [id |-> p, source |-> source, provider |-> p, tools |-> NamesOf(tools, p),
   requiredScopes |-> SelectRequiredScopes(registry, NamesOf(tools, p))]

LEMMA LeafRequirements ==
  ASSUME NEW source, NEW tools, NEW registry
  PROVE  RequirementsFor(source, tools, registry) =
           {LeafRequirement(source, tools, registry, p) : p \in ProvidersOf(tools)}
BY DEF RequirementsFor, LeafRequirement, NamesOf

LEMMA NamedBy ==
  ASSUME NEW tools, NEW p, NEW n
  PROVE  n \in NamesOf(tools, p) <=> \E t \in tools : t.name = n /\ t.provider = p
BY DEF NamesOf

ToolsOf(source, registry) ==
  {SourceTool(source.tools[i], registry) : i \in DOMAIN source.tools}

LEMMA LeafTools ==
  ASSUME NEW source, NEW registry, Complete(registry), DirectTools(source.tools, registry),
         NEW tools, tools = ToolsOf(source, registry)
  PROVE  /\ \A t \in tools : /\ t.provider = ProviderOf[t.name]
                             /\ t.provider \in DOMAIN registry.pin
                             /\ t.name \in DOMAIN registry.request
                             /\ t.request = registry.request[t.name]
         /\ \A t, u \in tools : t # u => Folded[t.name] # Folded[u.name]
<1> DEFINE entries == source.tools
<1>1. \A i \in DOMAIN entries :
        LET t == SourceTool(entries[i], registry)
        IN  /\ t.name = entries[i].tool /\ t.provider = ProviderOf[entries[i].tool]
            /\ t.request = registry.request[entries[i].tool]
  BY DEF SourceTool
<1>2. \A i \in DOMAIN entries : entries[i].tool \in DOMAIN registry.scopes
  BY DEF DirectTools
<1>3. \A i, j \in DOMAIN entries :
        Folded[entries[i].tool] = Folded[entries[j].tool] => i = j
  BY DEF DirectTools, IsInjective
<1>4. \A t \in tools : \E i \in DOMAIN entries : t = SourceTool(entries[i], registry)
  BY DEF ToolsOf
<1> HIDE DEF entries
<1> QED
  BY <1>1, <1>2, <1>3, <1>4 DEF Complete

(* A folder with tools of its own that compiles is accepted at publishing  *)
(* by a hosted side of the same release.                                   *)
THEOREM LeavesAreAccepted ==
  ASSUME NEW source, NEW registry, Complete(registry),
         DOMAIN source.tools # {}, Leaf(source, registry) # Failed
  PROVE  Accepted(Leaf(source, registry), source.name, registry)
<1> DEFINE tools == ToolsOf(source, registry)
           requirements == RequirementsFor(source.name, tools, registry)
           requirement(p) == LeafRequirement(source.name, tools, registry, p)
<1>1. /\ DirectTools(source.tools, registry)
      /\ Leaf(source, registry) = Artifact(source.name, {}, tools, requirements, registry)
  BY DEF Leaf, ToolsOf
<1>2. tools # {}
  BY DEF ToolsOf
<1>3. /\ \A t \in tools : /\ t.provider = ProviderOf[t.name]
                          /\ t.provider \in DOMAIN registry.pin
                          /\ t.name \in DOMAIN registry.request
                          /\ t.request = registry.request[t.name]
      /\ \A t, u \in tools : t # u => Folded[t.name] # Folded[u.name]
  BY <1>1, LeafTools
<1>4. requirements = {requirement(p) : p \in ProvidersOf(tools)}
  BY LeafRequirements
<1>5. \A p : /\ Formed(requirement(p))
             /\ requirement(p).id = p /\ requirement(p).provider = p
             /\ requirement(p).tools = NamesOf(tools, p)
             /\ requirement(p).requiredScopes
                  = SelectRequiredScopes(registry, requirement(p).tools)
  BY DEF LeafRequirement, Formed
<1> HIDE DEF tools, requirements, requirement
<1>6. \A r \in requirements : \E p \in ProvidersOf(tools) : r = requirement(p)
  BY <1>4
<1>7. \A t \in tools : \E r \in requirements : t.name \in r.tools
  <2> SUFFICES ASSUME NEW t \in tools PROVE \E r \in requirements : t.name \in r.tools
    OBVIOUS
  <2>1. requirement(t.provider) \in requirements
    BY <1>4 DEF ProvidersOf
  <2> QED
    BY <1>5, <2>1, NamedBy
<1>8. \A r, s \in requirements : r.id = s.id => r = s
  BY <1>5, <1>6
<1>9. \A r, s \in requirements : r # s => r.tools \cap s.tools = {}
  BY <1>3, <1>5, <1>6, NamedBy
<1>10. \A p \in ProvidersOf(tools) : NamesOf(tools, p) # {}
  BY NamedBy DEF ProvidersOf
<1>11. \A r \in requirements :
         /\ r.tools # {} /\ r.requiredScopes = SelectRequiredScopes(registry, r.tools)
         /\ \A n \in r.tools : \E t \in tools : t.name = n /\ t.provider = r.provider
  BY <1>5, <1>6, <1>10, NamedBy
<1>12. \A r \in requirements : Formed(r)
  BY <1>5, <1>6
<1> QED
  BY <1>1, <1>2, <1>3, <1>7, <1>8, <1>9, <1>11, <1>12, AcceptedWhen

(* A requirement of a child, renamed by its composite.                     *)
SourceId(requirements, r) ==
  IF Cardinality({s.provider : s \in {u \in requirements : u.source = r.source}}) = 1
  THEN r.source ELSE <<r.source, r.provider>>

Rebased(requirements, r) ==
  [id |-> SourceId(requirements, r), source |-> r.source, provider |-> r.provider,
   tools |-> r.tools, requiredScopes |-> r.requiredScopes]

LEMMA RebasedRequirements ==
  ASSUME NEW requirements, \A r \in requirements : Formed(r)
  PROVE  RebaseComposedRequirements(requirements)
           = {Rebased(requirements, r) : r \in requirements}
<1> DEFINE kept(r) == [r EXCEPT !.id = SourceId(requirements, r)]
<1>1. RebaseComposedRequirements(requirements) = {kept(r) : r \in requirements}
  BY DEF RebaseComposedRequirements, SourceId
<1>2. ASSUME NEW r \in requirements PROVE kept(r) = Rebased(requirements, r)
  <2> DEFINE written == [id |-> r.id, source |-> r.source, provider |-> r.provider,
                         tools |-> r.tools, requiredScopes |-> r.requiredScopes]
             new == SourceId(requirements, r)
  <2>1. r = written
    BY DEF Formed
  <2> HIDE DEF new
  <2>2. [written EXCEPT !.id = new]
          = [id |-> new, source |-> r.source, provider |-> r.provider,
             tools |-> r.tools, requiredScopes |-> r.requiredScopes]
    OBVIOUS
  <2>3. kept(r) = [written EXCEPT !.id = new]
    BY <2>1 DEF new
  <2> QED
    BY <2>2, <2>3 DEF Rebased, new
<1> HIDE DEF kept
<1> QED
  BY <1>1, <1>2

(* What two children that share no tool have between them.                 *)
LEMMA ToolsApart ==
  ASSUME NEW children, NEW registry, FlattenTools(children),
         \A c \in children : Accepted(c, c.name, registry),
         NEW c \in children, NEW d \in children,
         NEW t \in c.tools, NEW u \in d.tools, Folded[t.name] = Folded[u.name]
  PROVE  t = u
<1>1. c = d
  BY DEF FlattenTools
<1> QED
  BY <1>1 DEF Accepted, AssertArtifact, ValidTools

LEMMA RequirementsApart ==
  ASSUME NEW children, NEW registry, FlattenTools(children),
         \A c \in children : Accepted(c, c.name, registry),
         NEW c \in children, NEW d \in children,
         NEW r \in c.requirements, NEW s \in d.requirements, r.tools \cap s.tools # {}
  PROVE  r = s
<1>1. PICK n \in r.tools : n \in s.tools
  OBVIOUS
<1>2. PICK t \in c.tools : t.name = n
  BY <1>1 DEF Accepted, AssertArtifact, ValidRequirements
<1>3. PICK u \in d.tools : u.name = n
  BY <1>1 DEF Accepted, AssertArtifact, ValidRequirements
<1>4. c = d
  BY <1>2, <1>3 DEF FlattenTools
<1> QED
  BY <1>4 DEF Accepted, AssertArtifact, ValidRequirements, Claimed

(* A folder that composes Angels the validator accepts is accepted itself, *)
(* when it compiles: no tool of two children is one, so that the claims of *)
(* their requirements never meet, and a requirement asks for the consent   *)
(* its child derived.                                                      *)
THEOREM CompositesAreAccepted ==
  ASSUME NEW source, NEW children, NEW registry, children # {},
         \A c \in children : Accepted(c, c.name, registry),
         Composite(source, children, registry) # Failed
  PROVE  Accepted(Composite(source, children, registry), source.name, registry)
<1> DEFINE theirs == UNION {c.requirements : c \in children}
           requirements == RebaseComposedRequirements(theirs)
           tools == UNION {c.tools : c \in children}
<1>1. /\ FlattenTools(children)
      /\ \A r, s \in requirements : r.id = s.id => r = s
      /\ Composite(source, children, registry) =
           Artifact(source.name, children, tools, requirements, registry)
  BY DEF Composite
<1>2. /\ \A t \in tools : \E c \in children : t \in c.tools
      /\ \A r \in theirs : \E c \in children : r \in c.requirements
      /\ \A c \in children : c.tools \subseteq tools /\ c.requirements \subseteq theirs
  OBVIOUS
<1>3. \A r \in theirs : Formed(r)
  BY DEF Accepted
<1>4. requirements = {Rebased(theirs, r) : r \in theirs}
  BY <1>3, RebasedRequirements
<1>5. \A r : /\ Formed(Rebased(theirs, r))
             /\ Rebased(theirs, r).tools = r.tools
             /\ Rebased(theirs, r).provider = r.provider
             /\ Rebased(theirs, r).requiredScopes = r.requiredScopes
  BY DEF Formed, Rebased
<1> HIDE DEF theirs, requirements, tools
<1>6. \A c \in children :
        /\ c.tools # {}
        /\ ValidProviders(c, registry) /\ ValidTools(c, registry)
        /\ ValidRequirements(c, registry)
  BY DEF Accepted, AssertArtifact
<1>7. tools # {}
  BY <1>2, <1>6
<1>8. \A t \in tools : /\ t.provider = ProviderOf[t.name]
                       /\ t.provider \in DOMAIN registry.pin
                       /\ t.name \in DOMAIN registry.request
                       /\ t.request = registry.request[t.name]
  BY <1>2, <1>6 DEF ValidProviders, ProvidersOf, ValidTools
<1>9. \A t, u \in tools : t # u => Folded[t.name] # Folded[u.name]
  <2> SUFFICES ASSUME NEW t \in tools, NEW u \in tools, Folded[t.name] = Folded[u.name]
               PROVE  t = u
    OBVIOUS
  <2>1. PICK c \in children : t \in c.tools
    BY <1>2
  <2>2. PICK d \in children : u \in d.tools
    BY <1>2
  <2> QED
    BY <1>1, <2>1, <2>2, ToolsApart
<1>10. \A r, s \in theirs : r.tools \cap s.tools # {} => r = s
  <2> SUFFICES ASSUME NEW r \in theirs, NEW s \in theirs, r.tools \cap s.tools # {}
               PROVE  r = s
    OBVIOUS
  <2>1. PICK c \in children : r \in c.requirements
    BY <1>2
  <2>2. PICK d \in children : s \in d.requirements
    BY <1>2
  <2> QED
    BY <1>1, <2>1, <2>2, RequirementsApart
<1>11. \A r, s \in requirements : r # s => r.tools \cap s.tools = {}
  BY <1>4, <1>5, <1>10
<1>12. \A t \in tools : \E r \in requirements : t.name \in r.tools
  <2> SUFFICES ASSUME NEW t \in tools PROVE \E r \in requirements : t.name \in r.tools
    OBVIOUS
  <2>1. PICK r \in theirs : t.name \in r.tools
    BY <1>2, <1>6 DEF ValidRequirements, Claimed
  <2> QED
    BY <1>4, <1>5, <2>1
<1>13. \A r \in theirs :
         /\ r.tools # {} /\ r.requiredScopes = SelectRequiredScopes(registry, r.tools)
         /\ \A n \in r.tools : \E t \in tools : t.name = n /\ t.provider = r.provider
  BY <1>2, <1>6 DEF ValidRequirements
<1>14. \A r \in requirements :
         /\ Formed(r)
         /\ r.tools # {} /\ r.requiredScopes = SelectRequiredScopes(registry, r.tools)
         /\ \A n \in r.tools : \E t \in tools : t.name = n /\ t.provider = r.provider
  BY <1>4, <1>5, <1>13
<1> QED
  BY <1>1, <1>7, <1>8, <1>9, <1>11, <1>12, <1>14, AcceptedWhen

-----------------------------------------------------------------------------
(* The least of finite sets and of numbers.                                *)

(* Among the subsets of a finite set there is one that contains no other.  *)
LEMMA SmallestSet ==
  ASSUME NEW U, IsFiniteSet(U), NEW T, T \subseteq SUBSET U, T # {}
  PROVE  \E X \in T : \A Y \in T : ~(Y \subseteq X /\ Y # X)
<1>1. IsWellFoundedOn(StrictSubsetOrdering(U), SUBSET U)
  BY FS_StrictSubsetOrderingWellFounded, FS_FiniteSubsetsOfFinite
<1>2. PICK X \in T : \A Y \in T : <<Y, X>> \notin StrictSubsetOrdering(U)
  BY <1>1, WFMin
<1> QED
  BY <1>2 DEF StrictSubsetOrdering

(* What is before x in a relation that is given as a set of pairs.         *)
Before(U, R, x) == {y \in U : <<y, x>> \in R}

(* A strict order on a finite set has a first.                             *)
LEMMA FirstOf ==
  ASSUME NEW U, IsFiniteSet(U), U # {}, NEW R,
         \A x \in U : <<x, x>> \notin R,
         \A x, y, z \in U : <<x, y>> \in R /\ <<y, z>> \in R => <<x, z>> \in R
  PROVE  \E x \in U : \A y \in U : <<y, x>> \notin R
<1> DEFINE below == {Before(U, R, x) : x \in U}
<1>1. \A x \in U : Before(U, R, x) \in below
  OBVIOUS
<1>3. \A X \in below : \E x \in U : X = Before(U, R, x)
  OBVIOUS
<1> HIDE DEF below
<1>2. below \subseteq SUBSET U /\ below # {}
  <2>1. \A x \in U : Before(U, R, x) \subseteq U
    BY DEF Before
  <2>2. below \subseteq SUBSET U
    BY <1>3, <2>1
  <2>3. below # {}
    BY <1>1
  <2> QED
    BY <2>2, <2>3
<1>4. PICK X \in below : \A Y \in below : ~(Y \subseteq X /\ Y # X)
  BY <1>2, SmallestSet
<1>5. PICK x \in U : X = Before(U, R, x)
  BY <1>3
<1>6. ASSUME NEW y \in U, <<y, x>> \in R PROVE FALSE
  <2>1. Before(U, R, y) \subseteq X
    BY <1>5, <1>6 DEF Before
  <2>2. y \in X /\ y \notin Before(U, R, y)
    BY <1>5, <1>6 DEF Before
  <2> QED
    BY <1>1, <1>4, <2>1, <2>2
<1> QED
  BY <1>6

(* A finite set of numbers has a greatest.                                 *)
LEMMA Greatest ==
  ASSUME NEW A, A \subseteq Nat, IsFiniteSet(A), A # {}
  PROVE  \E m \in A : \A q \in A : q <= m
<1> DEFINE R == {p \in A \X A : p[1] > p[2]}
<1>1. \A x, y \in A : <<x, y>> \in R <=> x > y
  OBVIOUS
<1> HIDE DEF R
<1>2. PICK m \in A : \A q \in A : <<q, m>> \notin R
  <2>1. \A x \in A : <<x, x>> \notin R
    BY <1>1
  <2>2. \A x, y, z \in A : <<x, y>> \in R /\ <<y, z>> \in R => <<x, z>> \in R
    BY <1>1
  <2> QED
    BY <2>1, <2>2, FirstOf
<1>3. \A q \in A : ~(q > m)
  BY <1>1, <1>2
<1> QED
  BY <1>3

-----------------------------------------------------------------------------
(* The ranks of a set of scopes; the ones above one of them, which count   *)
(* the places before it, and the set laid out by those places.             *)
Ranks(ranking, S) == {Rank(ranking, s) : s \in S}
Broader(A, r) == {q \in A : q > r}
Position(A, r) == Cardinality(Broader(A, r)) + 1
Enumeration(A) ==
  [i \in 1 .. Cardinality(A) |-> CHOOSE r \in A : Cardinality(Broader(A, r)) = i - 1]

(* The vector of a set of scopes lays out its ranks.                       *)
LEMMA VectorEnumerates ==
  ASSUME NEW ranking, NEW S
  PROVE  Vector(ranking, S) = Enumeration(Ranks(ranking, S))
BY DEF Vector, Enumeration, Ranks, Broader

(* The places of the ranks of a finite set are the numbers up to its size, *)
(* each once, broadest first.                                              *)
LEMMA Positions ==
  ASSUME NEW A, A \subseteq Nat, IsFiniteSet(A)
  PROVE  /\ \A r \in A : Position(A, r) \in 1 .. Cardinality(A)
         /\ \A r, q \in A : r < q => Position(A, q) < Position(A, r)
<1>1. \A r \in A : IsFiniteSet(Broader(A, r)) /\ Cardinality(Broader(A, r)) \in Nat
  <2> SUFFICES ASSUME NEW r \in A
               PROVE  IsFiniteSet(Broader(A, r)) /\ Cardinality(Broader(A, r)) \in Nat
    OBVIOUS
  <2>1. Broader(A, r) \in SUBSET A
    BY DEF Broader
  <2> QED
    BY <2>1, FS_Subset, FS_CardinalityType
<1>2. Cardinality(A) \in Nat
  BY FS_CardinalityType
<1>3. ASSUME NEW r \in A PROVE Cardinality(Broader(A, r)) < Cardinality(A)
  <2>1. Broader(A, r) \in SUBSET A /\ Broader(A, r) # A
    <3>1. r \notin Broader(A, r)
      BY DEF Broader
    <3> QED
      BY <3>1 DEF Broader
  <2>2. /\ Cardinality(Broader(A, r)) <= Cardinality(A)
        /\ Cardinality(A) = Cardinality(Broader(A, r)) => A = Broader(A, r)
    BY <2>1, FS_Subset
  <2> QED
    BY <1>1, <1>2, <2>1, <2>2
<1>4. ASSUME NEW r \in A, NEW q \in A, r < q
      PROVE  Cardinality(Broader(A, q)) < Cardinality(Broader(A, r))
  <2>1. Broader(A, q) \in SUBSET Broader(A, r)
    <3>1. r \in Nat /\ q \in Nat /\ \A x \in A : x \in Nat
      OBVIOUS
    <3>2. \A x \in A : x > q => x > r
      BY <1>4, <3>1
    <3> QED
      BY <3>2 DEF Broader
  <2>2. Broader(A, q) # Broader(A, r)
    <3>1. q \in Broader(A, r) /\ q \notin Broader(A, q)
      BY <1>4 DEF Broader
    <3> QED
      BY <3>1
  <2>3. /\ Cardinality(Broader(A, q)) <= Cardinality(Broader(A, r))
        /\ Cardinality(Broader(A, r)) = Cardinality(Broader(A, q))
             => Broader(A, r) = Broader(A, q)
    <3>1. IsFiniteSet(Broader(A, r))
      BY <1>1
    <3> QED
      BY <2>1, <3>1, FS_Subset
  <2>4. Cardinality(Broader(A, r)) \in Nat /\ Cardinality(Broader(A, q)) \in Nat
    BY <1>1
  <2> QED
    BY <2>2, <2>3, <2>4
<1>5. ASSUME NEW r \in A PROVE Position(A, r) \in 1 .. Cardinality(A)
  BY <1>1, <1>2, <1>3 DEF Position
<1>6. ASSUME NEW r \in A, NEW q \in A, r < q PROVE Position(A, q) < Position(A, r)
  BY <1>1, <1>4, <1>6 DEF Position
<1> QED
  BY <1>5, <1>6

(* The layout of a finite set falls from rank to rank and has each of      *)
(* them.                                                                   *)
LEMMA Enumerated ==
  ASSUME NEW A, A \subseteq Nat, IsFiniteSet(A)
  PROVE  /\ Cardinality(A) \in Nat
         /\ Enumeration(A) \in [1 .. Cardinality(A) -> A]
         /\ \A i \in 1 .. Cardinality(A) : Position(A, Enumeration(A)[i]) = i
         /\ \A r \in A : Enumeration(A)[Position(A, r)] = r
<1> DEFINE n == Cardinality(A)
           position == [r \in A |-> Position(A, r)]
<1>1. n \in Nat
  BY FS_CardinalityType
<1>2. position \in Injection(A, 1 .. n)
  <2>1. \A r \in A : Position(A, r) \in 1 .. n
    BY Positions
  <2>2. \A r, q \in A : position[r] = position[q] => r = q
    <3> SUFFICES ASSUME NEW r \in A, NEW q \in A, Position(A, r) = Position(A, q)
                 PROVE  r = q
      OBVIOUS
    <3>1. ~(r < q) /\ ~(q < r)
      <4>1. /\ r < q => Position(A, q) < Position(A, r)
            /\ q < r => Position(A, r) < Position(A, q)
        BY Positions
      <4>2. Position(A, r) \in 1 .. n
        BY <2>1
      <4> QED
        BY <4>1, <4>2, <1>1
    <3> QED
      BY <3>1
  <2> QED
    BY <2>1, <2>2 DEF Injection, IsInjective
<1>3. position \in Surjection(A, 1 .. n)
  <2>1. IsFiniteSet(1 .. n) /\ Cardinality(1 .. n) = n
    BY <1>1, FS_Interval
  <2> QED
    BY <1>2, <2>1, FS_Injection
<1>4. \A i \in 1 .. n : \E r \in A : Position(A, r) = i
  BY <1>3 DEF Surjection
<1>5. \A r, q \in A : Position(A, r) = Position(A, q) => r = q
  BY <1>2 DEF Injection, IsInjective
<1>6. \A r \in A : Position(A, r) \in 1 .. n /\ Cardinality(Broader(A, r)) \in Nat
  <2> SUFFICES ASSUME NEW r \in A
               PROVE  Position(A, r) \in 1 .. n /\ Cardinality(Broader(A, r)) \in Nat
    OBVIOUS
  <2>1. Broader(A, r) \in SUBSET A
    BY DEF Broader
  <2> QED
    BY <2>1, Positions, FS_Subset, FS_CardinalityType
<1> HIDE DEF n, position
<1>7. ASSUME NEW i \in 1 .. n
      PROVE  Enumeration(A)[i] \in A /\ Position(A, Enumeration(A)[i]) = i
  <2>1. PICK r \in A : Position(A, r) = i
    BY <1>4
  <2>2. \E q \in A : Cardinality(Broader(A, q)) = i - 1
    BY <1>6, <2>1 DEF Position
  <2>3. Enumeration(A)[i] = CHOOSE q \in A : Cardinality(Broader(A, q)) = i - 1
    BY DEF Enumeration, n
  <2>4. Enumeration(A)[i] \in A /\ Cardinality(Broader(A, Enumeration(A)[i])) = i - 1
    BY <2>2, <2>3
  <2> QED
    BY <1>6, <2>4 DEF Position
<1>8. Enumeration(A) \in [1 .. n -> A]
  BY <1>7 DEF Enumeration, n
<1>9. ASSUME NEW r \in A PROVE Enumeration(A)[Position(A, r)] = r
  BY <1>5, <1>6, <1>7
<1> QED
  BY <1>1, <1>7, <1>8, <1>9 DEF n

-----------------------------------------------------------------------------
(* B has the broadest rank in which the two differ.                        *)
Above(A, B) == \E m \in B \ A : \A u \in A \ B : u < m

(* That is a strict order of the sets of ranks,                            *)
LEMMA AboveOrders ==
  /\ \A A : ~Above(A, A)
  /\ \A A, B, C \in SUBSET Nat : Above(A, B) /\ Above(B, C) => Above(A, C)
<1>1. \A A : ~Above(A, A)
  BY DEF Above
<1>2. ASSUME NEW A \in SUBSET Nat, NEW B \in SUBSET Nat, NEW C \in SUBSET Nat,
             Above(A, B), Above(B, C)
      PROVE  Above(A, C)
  <2>1. PICK m \in B \ A : \A u \in A \ B : u < m
    BY <1>2 DEF Above
  <2>2. PICK n \in C \ B : \A u \in B \ C : u < n
    BY <1>2 DEF Above
  <2>3. m \in Nat /\ n \in Nat /\ m # n
    BY <2>1, <2>2
  <2>4. CASE m < n
    <3>1. n \in C \ A
      BY <2>1, <2>2, <2>3, <2>4
    <3>2. \A u \in A \ C : u < n
      BY <2>1, <2>2, <2>3, <2>4
    <3> QED
      BY <3>1, <3>2 DEF Above
  <2>5. CASE n < m
    <3>1. m \in C \ A
      BY <2>1, <2>2, <2>3, <2>5
    <3>2. \A u \in A \ C : u < m
      BY <2>1, <2>2, <2>3, <2>5
    <3> QED
      BY <3>1, <3>2 DEF Above
  <2> QED
    BY <2>3, <2>4, <2>5
<1> QED
  BY <1>1, <1>2

(* and a total one of the finite ones.                                     *)
LEMMA AboveTotal ==
  ASSUME NEW A, A \subseteq Nat, IsFiniteSet(A), NEW B, B \subseteq Nat, IsFiniteSet(B), A # B
  PROVE  Above(A, B) \/ Above(B, A)
<1> DEFINE D == (A \ B) \cup (B \ A)
<1>1. D \subseteq Nat /\ D # {}
  OBVIOUS
<1>2. IsFiniteSet(D)
  <2>1. IsFiniteSet(A \cup B)
    BY FS_Union
  <2>2. D \in SUBSET (A \cup B)
    OBVIOUS
  <2> QED
    BY <2>1, <2>2, FS_Subset
<1>3. PICK m \in D : \A q \in D : q <= m
  <2> HIDE DEF D
  <2> QED
    BY <1>1, <1>2, Greatest
<1>4. CASE m \in B \ A
  <2>1. \A u \in A \ B : u < m
    BY <1>3, <1>4
  <2> QED
    BY <1>4, <2>1 DEF Above
<1>5. CASE m \in A \ B
  <2>1. \A u \in B \ A : u < m
    BY <1>3, <1>5
  <2> QED
    BY <1>5, <2>1 DEF Above
<1> QED
  BY <1>4, <1>5

-----------------------------------------------------------------------------
(* Vectors, compared.                                                      *)
LEMMA StrictPrefix ==
  ASSUME NEW v \in Seq(Nat), NEW w \in Seq(Nat)
  PROVE  IsStrictPrefix(v, w) <=>
           Len(v) < Len(w) /\ \A i \in 1 .. Len(v) : v[i] = w[i]
<1>1. /\ Len(v) \in Nat /\ Len(w) \in Nat
      /\ v = w => Len(v) = Len(w)
      /\ SubSeq(v, 1, Len(v)) = v
  BY LenProperties, SubSeqFull
<1>2. CASE Len(v) <= Len(w)
  <2> DEFINE u == SubSeq(w, 1, Len(v))
  <2>1. \A i \in 1 .. Len(v) : w[i] \in Nat
    BY <1>1, <1>2, ElementOfSeq
  <2>2. /\ u \in Seq(Nat) /\ Len(u) = Len(v)
        /\ \A i \in 1 .. Len(v) : u[i] = w[i]
    BY <1>1, <2>1, SubSeqProperties
  <2> HIDE DEF u
  <2>3. v = u <=> \A i \in 1 .. Len(v) : v[i] = w[i]
    BY <2>2, SeqEqual
  <2>4. Len(v) = Len(w) /\ (\A i \in 1 .. Len(v) : v[i] = w[i]) => v = w
    BY SeqEqual
  <2>5. IsPrefix(v, w) <=> v = u
    BY <1>1, <1>2 DEF IsPrefix, u
  <2> QED
    BY <1>1, <1>2, <2>3, <2>4, <2>5 DEF IsStrictPrefix
<1>3. CASE ~(Len(v) <= Len(w))
  BY <1>1, <1>3 DEF IsStrictPrefix, IsPrefix
<1> QED
  BY <1>2, <1>3

(* The first rank in which one vector is below the other, or its end.      *)
Below(v, w) ==
  \/ \E i \in 1 .. Len(v) :
       /\ i <= Len(w) /\ v[i] < w[i]
       /\ \A j \in 1 .. i - 1 : v[j] = w[j]
  \/ Len(v) < Len(w) /\ \A i \in 1 .. Len(v) : v[i] = w[i]

(* What compareBroadestFirst compares.                                     *)
LEMMA BroadestFirstBelow ==
  ASSUME NEW v \in Seq(Nat), NEW w \in Seq(Nat)
  PROVE  BroadestFirst(v, w) <=> Below(v, w)
<1>1. /\ DOMAIN v = 1 .. Len(v) /\ DOMAIN w = 1 .. Len(w)
      /\ Len(v) \in Nat /\ Len(w) \in Nat
  BY LenProperties
<1>2. \A i : i \in DOMAIN v \cap DOMAIN w <=> i \in 1 .. Len(v) /\ i <= Len(w)
  BY <1>1
<1> QED
  BY <1>2, StrictPrefix DEF BroadestFirst, Below

(* Of two vectors one at most is below the other.                          *)
LEMMA BelowAsymmetric ==
  ASSUME NEW v \in Seq(Nat), NEW w \in Seq(Nat), Below(v, w)
  PROVE  ~Below(w, v)
<1>1. Len(v) \in Nat /\ Len(w) \in Nat
  BY LenProperties
<1>2. /\ \A i \in 1 .. Len(v) : v[i] \in Nat
      /\ \A i \in 1 .. Len(w) : w[i] \in Nat
  BY ElementOfSeq
<1>3. ASSUME NEW i \in 1 .. Len(v), i <= Len(w), v[i] < w[i],
             \A j \in 1 .. i - 1 : v[j] = w[j], Below(w, v)
      PROVE  FALSE
  <2>1. i \in 1 .. Len(w) /\ v[i] # w[i] /\ ~(w[i] < v[i])
    BY <1>1, <1>2, <1>3
  <2>2. ASSUME NEW k \in 1 .. Len(w), k <= Len(v), w[k] < v[k],
               \A j \in 1 .. k - 1 : w[j] = v[j]
        PROVE  FALSE
    <3>1. CASE i < k
      BY <1>1, <2>1, <2>2, <3>1
    <3>2. CASE k < i
      <4>1. v[k] = w[k] /\ v[k] \in Nat
        BY <1>1, <1>2, <1>3, <2>2, <3>2
      <4> QED
        BY <2>2, <4>1
    <3> QED
      BY <2>1, <2>2, <3>1, <3>2
  <2> QED
    BY <1>3, <2>1, <2>2 DEF Below
<1>4. ASSUME Len(v) < Len(w), \A i \in 1 .. Len(v) : v[i] = w[i], Below(w, v)
      PROVE  FALSE
  <2>1. PICK k \in 1 .. Len(w) : k <= Len(v) /\ w[k] < v[k]
    BY <1>1, <1>4 DEF Below
  <2>2. v[k] = w[k] /\ v[k] \in Nat
    BY <1>1, <1>2, <1>4, <2>1
  <2> QED
    BY <2>1, <2>2
<1> QED
  BY <1>3, <1>4 DEF Below

(* A set whose broadest difference is narrower has the lower vector.       *)
LEMMA AboveBelow ==
  ASSUME NEW A, A \subseteq Nat, IsFiniteSet(A), NEW B, B \subseteq Nat, IsFiniteSet(B),
         Above(A, B)
  PROVE  Below(Enumeration(A), Enumeration(B))
<1> DEFINE v == Enumeration(A)
           w == Enumeration(B)
           top == B \ A
<1>1. PICK m \in top : (\A q \in top : q <= m) /\ \A u \in A \ B : u < m
  <2>1. PICK b \in top : \A u \in A \ B : u < b
    BY DEF Above
  <2>2. top \subseteq Nat /\ IsFiniteSet(top) /\ top # {}
    BY <2>1, FS_Difference
  <2> HIDE DEF top
  <2>3. PICK m \in top : \A q \in top : q <= m
    BY <2>2, Greatest
  <2>4. b \in Nat /\ m \in Nat /\ b <= m /\ \A u \in A : u \in Nat
    BY <2>1, <2>2, <2>3
  <2>5. \A u \in A \ B : u < m
    BY <2>1, <2>4
  <2> QED
    BY <2>3, <2>5
<1>2. /\ m \in B /\ m \notin A /\ m \in Nat
      /\ (\A u \in A : u \in Nat) /\ (\A u \in B : u \in Nat)
      /\ \A u \in A : u > m => u \in B
      /\ \A u \in B : u > m => u \in A
  BY <1>1
<1>3. \A r \in Nat : r >= m => Position(A, r) = Position(B, r)
  <2> SUFFICES ASSUME NEW r \in Nat, r >= m PROVE Broader(A, r) = Broader(B, r)
    BY DEF Position
  <2>1. \A q \in Nat : q > r => q > m
    BY <1>2
  <2>2. \A q : q \in A /\ q > r <=> q \in B /\ q > r
    BY <1>2, <2>1
  <2> QED
    BY <2>2 DEF Broader
<1>4. /\ Cardinality(A) \in Nat /\ Cardinality(B) \in Nat
      /\ v \in [1 .. Cardinality(A) -> A] /\ w \in [1 .. Cardinality(B) -> B]
      /\ \A i \in 1 .. Cardinality(A) : Position(A, v[i]) = i
      /\ \A i \in 1 .. Cardinality(B) : Position(B, w[i]) = i
      /\ \A r \in A : v[Position(A, r)] = r
      /\ \A r \in B : w[Position(B, r)] = r
  BY Enumerated
<1>5. Len(v) = Cardinality(A) /\ Len(w) = Cardinality(B)
  BY <1>4
<1>6. /\ \A r \in A : Position(A, r) \in 1 .. Len(v)
      /\ \A r \in B : Position(B, r) \in 1 .. Len(w)
      /\ \A r, q \in B : r < q => Position(B, q) < Position(B, r)
  BY <1>5, Positions
<1> HIDE DEF v, w, top
<1> DEFINE p == Position(B, m)
<1>7. p \in 1 .. Len(w) /\ w[p] = m
  BY <1>2, <1>4, <1>6
<1> HIDE DEF p
<1>8. ASSUME NEW i \in 1 .. p - 1 PROVE i \in 1 .. Len(v) /\ v[i] = w[i]
  <2>1. i \in 1 .. Len(w)
    BY <1>4, <1>5, <1>7
  <2>2. w[i] \in B /\ Position(B, w[i]) = i
    BY <1>4, <1>5, <2>1
  <2>3. w[i] > m
    <3>1. i < p /\ i \in Nat /\ p \in Nat
      BY <1>4, <1>5, <1>7
    <3>4. w[i] \in Nat /\ m \in Nat /\ m \in B
      BY <1>2, <2>2
    <3>2. w[i] < m => p < i
      BY <1>6, <2>2, <3>4 DEF p
    <3>3. w[i] # m
      BY <2>2, <3>1 DEF p
    <3> QED
      BY <3>1, <3>2, <3>3, <3>4
  <2>4. w[i] \in A /\ Position(A, w[i]) = i
    <3>3. w[i] \in Nat /\ m \in Nat
      BY <1>2, <2>2
    <3>4. w[i] \in A
      BY <1>2, <2>2, <2>3
    <3>1. w[i] \in Nat /\ w[i] >= m /\ w[i] \in A
      BY <2>3, <3>3, <3>4
    <3>2. Position(A, w[i]) = Position(B, w[i])
      BY <1>3, <3>1
    <3> QED
      BY <2>2, <3>1, <3>2
  <2> QED
    BY <1>4, <1>6, <2>4
<1>9. CASE p <= Len(v)
  <2>1. p \in 1 .. Len(v) /\ v[p] \in A /\ Position(A, v[p]) = p
    BY <1>4, <1>5, <1>7, <1>9
  <2>2. ~(v[p] > m)
    <3>1. ASSUME v[p] > m PROVE FALSE
      <4>1. v[p] \in B /\ Position(B, v[p]) = p
        <5>3. v[p] \in Nat /\ m \in Nat
          BY <1>2, <2>1
        <5>4. v[p] \in B
          BY <1>2, <2>1, <3>1
        <5>1. v[p] \in Nat /\ v[p] >= m /\ v[p] \in B
          BY <3>1, <5>3, <5>4
        <5>2. Position(A, v[p]) = Position(B, v[p])
          BY <1>3, <5>1
        <5> QED
          BY <2>1, <5>1, <5>2
      <4>2. Position(B, v[p]) < Position(B, m)
        BY <1>2, <1>6, <3>1, <4>1
      <4> QED
        BY <1>4, <1>5, <1>7, <4>1, <4>2 DEF p
    <3> QED
      BY <3>1
  <2>3. v[p] < w[p]
    <3>1. v[p] \in Nat /\ m \in Nat /\ v[p] # m
      BY <1>2, <2>1
    <3> QED
      BY <1>7, <2>2, <3>1
  <2>4. \A j \in 1 .. p - 1 : v[j] = w[j]
    BY <1>8
  <2>5. p <= Len(w)
    BY <1>4, <1>5, <1>7
  <2> QED
    BY <2>1, <2>3, <2>4, <2>5 DEF Below, v, w
<1>10. CASE ~(p <= Len(v))
  <2>1. Len(v) < Len(w)
    BY <1>4, <1>5, <1>7, <1>10
  <2>2. \A i \in 1 .. Len(v) : v[i] = w[i]
    BY <1>4, <1>5, <1>7, <1>8, <1>10
  <2> QED
    BY <2>1, <2>2 DEF Below, v, w
<1> QED
  BY <1>9, <1>10

(* A set of ranks whose vector comes first lacks the broadest in which the *)
(* two differ.                                                             *)
LEMMA VectorsCompared ==
  ASSUME NEW A, A \subseteq Nat, IsFiniteSet(A), NEW B, B \subseteq Nat, IsFiniteSet(B),
         A # B
  PROVE  BroadestFirst(Enumeration(A), Enumeration(B)) <=> Above(A, B)
<1> DEFINE v == Enumeration(A)
           w == Enumeration(B)
<1>1. v \in Seq(Nat) /\ w \in Seq(Nat)
  <2>1. /\ Cardinality(A) \in Nat /\ v \in [1 .. Cardinality(A) -> A]
        /\ Cardinality(B) \in Nat /\ w \in [1 .. Cardinality(B) -> B]
    BY Enumerated
  <2> HIDE DEF v, w
  <2>2. v \in Seq(A) /\ w \in Seq(B)
    BY <2>1
  <2> QED
    BY <2>2, SeqMonotonic
<1>2. /\ Above(A, B) => Below(v, w)
      /\ Above(B, A) => Below(w, v)
  BY AboveBelow
<1>3. Above(A, B) \/ Above(B, A)
  BY AboveTotal
<1> HIDE DEF v, w
<1>4. Below(w, v) => ~Below(v, w)
  BY <1>1, BelowAsymmetric
<1>5. BroadestFirst(v, w) <=> Below(v, w)
  BY <1>1, BroadestFirstBelow
<1> QED
  BY <1>2, <1>3, <1>4, <1>5 DEF v, w

-----------------------------------------------------------------------------
(* The consent that is selected.                                           *)
LEMMA RankOf ==
  ASSUME NEW ranking, ranking \in Seq(ToSet(ranking)), NEW s \in ToSet(ranking)
  PROVE  /\ Rank(ranking, s) \in 1 .. Len(ranking) /\ Rank(ranking, s) \in Nat
         /\ ranking[Rank(ranking, s)] = s
<1>1. DOMAIN ranking = 1 .. Len(ranking) /\ Len(ranking) \in Nat
  BY LenProperties
<1>2. \E i \in DOMAIN ranking : ranking[i] = s
  BY DEF ToSet
<1>3. Rank(ranking, s) \in DOMAIN ranking /\ ranking[Rank(ranking, s)] = s
  BY <1>2 DEF Rank
<1> QED
  BY <1>1, <1>3

(* A scope of the ranking is in a set when its rank is among those of the  *)
(* set.                                                                    *)
LEMMA RanksOf ==
  ASSUME NEW ranking, ranking \in Seq(ToSet(ranking)), NEW S, S \subseteq ToSet(ranking)
  PROVE  /\ Ranks(ranking, S) \subseteq Nat /\ IsFiniteSet(Ranks(ranking, S))
         /\ \A s \in ToSet(ranking) : Rank(ranking, s) \in Ranks(ranking, S) <=> s \in S
<1>1. Len(ranking) \in Nat
  BY LenProperties
<1>2. \A s \in S : Rank(ranking, s) \in 1 .. Len(ranking)
  BY RankOf
<1>3. Ranks(ranking, S) \in SUBSET (1 .. Len(ranking))
  BY <1>2 DEF Ranks
<1>4. IsFiniteSet(1 .. Len(ranking)) /\ 1 .. Len(ranking) \subseteq Nat
  BY <1>1, FS_Interval
<1>5. IsFiniteSet(Ranks(ranking, S)) /\ Ranks(ranking, S) \subseteq Nat
  BY <1>3, <1>4, FS_Subset
<1>6. ASSUME NEW s \in ToSet(ranking)
      PROVE  Rank(ranking, s) \in Ranks(ranking, S) <=> s \in S
  <2>1. ASSUME NEW u \in S, Rank(ranking, s) = Rank(ranking, u) PROVE s = u
    BY <2>1, RankOf
  <2> QED
    BY <2>1 DEF Ranks
<1> QED
  BY <1>5, <1>6

(* A ranking has finitely many scopes.                                     *)
LEMMA FiniteRange ==
  ASSUME NEW ranking, ranking \in Seq(ToSet(ranking))
  PROVE  IsFiniteSet(ToSet(ranking))
<1>1. Len(ranking) \in Nat /\ ranking \in [1 .. Len(ranking) -> ToSet(ranking)]
  BY LenProperties
<1>2. ranking \in Surjection(1 .. Len(ranking), ToSet(ranking))
  BY <1>1 DEF Surjection, ToSet
<1>3. IsFiniteSet(1 .. Len(ranking))
  BY <1>1, FS_Interval
<1> QED
  BY <1>2, <1>3, FS_Surjection

(* The scopes the exhaustive search draws from.                            *)
Pool(registry, tools) == UNION {Alternatives(registry, t) : t \in tools}

(* The subsets the search considers.                                       *)
LEMMA CoversOfPool ==
  ASSUME NEW registry, NEW tools, NEW S
  PROVE  S \in Covers(registry, tools) <=>
           /\ S \subseteq Pool(registry, tools)
           /\ \A t \in tools : S \cap Alternatives(registry, t) # {}
BY DEF Covers, Pool

(* The exhaustive search finds a cover, whose consent is broader than that *)
(* of no other.                                                            *)
LEMMA ConsentSelected ==
  ASSUME NEW registry, NEW p, NEW tools, tools # {}, \A t \in tools : ProviderOf[t] = p,
         registry.ranking[p] \in Seq(ToSet(registry.ranking[p])),
         SelectRequiredScopes(registry, tools) # {}
  PROVE  /\ SelectRequiredScopes(registry, tools) \in Covers(registry, tools)
         /\ \A T \in Covers(registry, tools) \ {SelectRequiredScopes(registry, tools)} :
              Above(Ranks(registry.ranking[p], SelectRequiredScopes(registry, tools)),
                    Ranks(registry.ranking[p], T))
<1> DEFINE ranking == registry.ranking[p]
           covers == Covers(registry, tools)
           pool == Pool(registry, tools)
           best(S) == \A T \in covers \ {S} :
                        BroadestFirst(Vector(ranking, S), Vector(ranking, T))
           order == {q \in covers \X covers : Above(Ranks(ranking, q[1]), Ranks(ranking, q[2]))}
<1>1. ProviderOf[CHOOSE t \in tools : TRUE] = p
  OBVIOUS
<1>2. \A t \in tools : Alternatives(registry, t) # {}
  BY DEF SelectRequiredScopes
<1>3. SelectRequiredScopes(registry, tools) = CHOOSE S \in covers : best(S)
  BY <1>1, <1>2 DEF SelectRequiredScopes
<1>4. \A t \in tools : Alternatives(registry, t) \subseteq ToSet(ranking)
  BY DEF Alternatives
<1>5. pool \subseteq ToSet(ranking) /\ \A t \in tools : Alternatives(registry, t) \subseteq pool
  BY <1>4 DEF Pool
<1>6. pool \in covers
  BY <1>2, <1>5, CoversOfPool
<1>7. \A S \in covers : S \subseteq pool /\ S \subseteq ToSet(ranking)
  BY <1>5, CoversOfPool
<1>8. IsFiniteSet(covers)
  <2>1. IsFiniteSet(ToSet(ranking))
    BY FiniteRange
  <2>2. IsFiniteSet(pool)
    BY <1>5, <2>1, FS_Subset
  <2>3. covers \in SUBSET (SUBSET pool)
    BY <1>7
  <2> QED
    BY <2>2, <2>3, FS_SUBSET, FS_Subset
<1> HIDE DEF covers, pool, ranking
<1>9. \A S \in covers : Ranks(ranking, S) \in SUBSET Nat /\ IsFiniteSet(Ranks(ranking, S))
  BY <1>7, RanksOf DEF ranking
<1>10. ASSUME NEW S \in covers, NEW T \in covers, S # T
       PROVE  Ranks(ranking, S) # Ranks(ranking, T)
  <2>1. /\ \A s \in ToSet(ranking) : Rank(ranking, s) \in Ranks(ranking, S) <=> s \in S
        /\ \A s \in ToSet(ranking) : Rank(ranking, s) \in Ranks(ranking, T) <=> s \in T
    BY <1>7, RanksOf DEF ranking
  <2>2. \E s \in ToSet(ranking) : (s \in S) # (s \in T)
    BY <1>7, <1>10
  <2> QED
    BY <2>1, <2>2
<1>11. ASSUME NEW S \in covers, NEW T \in covers, S # T
       PROVE  /\ BroadestFirst(Vector(ranking, S), Vector(ranking, T))
                   <=> Above(Ranks(ranking, S), Ranks(ranking, T))
              /\ \/ Above(Ranks(ranking, S), Ranks(ranking, T))
                 \/ Above(Ranks(ranking, T), Ranks(ranking, S))
  <2>1. /\ Ranks(ranking, S) \subseteq Nat /\ IsFiniteSet(Ranks(ranking, S))
        /\ Ranks(ranking, T) \subseteq Nat /\ IsFiniteSet(Ranks(ranking, T))
        /\ Ranks(ranking, S) # Ranks(ranking, T)
    BY <1>9, <1>10, <1>11
  <2>2. /\ Vector(ranking, S) = Enumeration(Ranks(ranking, S))
        /\ Vector(ranking, T) = Enumeration(Ranks(ranking, T))
    BY VectorEnumerates
  <2>3. BroadestFirst(Enumeration(Ranks(ranking, S)), Enumeration(Ranks(ranking, T)))
          <=> Above(Ranks(ranking, S), Ranks(ranking, T))
    BY <2>1, VectorsCompared
  <2>4. \/ Above(Ranks(ranking, S), Ranks(ranking, T))
        \/ Above(Ranks(ranking, T), Ranks(ranking, S))
    BY <2>1, AboveTotal
  <2> QED
    BY <2>2, <2>3, <2>4
<1>12. \A S, T \in covers :
         <<S, T>> \in order <=> Above(Ranks(ranking, S), Ranks(ranking, T))
  OBVIOUS
<1> HIDE DEF order
<1>13. PICK S \in covers : \A T \in covers : <<T, S>> \notin order
  <2>1. \A T \in covers : <<T, T>> \notin order
    BY <1>12, AboveOrders
  <2>2. ASSUME NEW T \in covers, NEW U \in covers, NEW V \in covers,
               <<T, U>> \in order, <<U, V>> \in order
        PROVE  <<T, V>> \in order
    <3>1. /\ Ranks(ranking, T) \in SUBSET Nat /\ Ranks(ranking, U) \in SUBSET Nat
          /\ Ranks(ranking, V) \in SUBSET Nat
      BY <1>9
    <3>2. /\ Above(Ranks(ranking, T), Ranks(ranking, U))
          /\ Above(Ranks(ranking, U), Ranks(ranking, V))
      BY <1>12, <2>2
    <3>3. Above(Ranks(ranking, T), Ranks(ranking, V))
      BY <3>1, <3>2, AboveOrders
    <3> QED
      BY <1>12, <3>3
  <2>3. covers # {}
    BY <1>6
  <2> QED
    BY <1>8, <2>1, <2>2, <2>3, FirstOf
<1>14. best(S)
  BY <1>11, <1>12, <1>13
<1> HIDE DEF best
<1> DEFINE chosen == CHOOSE X \in covers : best(X)
<1>15. chosen \in covers /\ best(chosen)
  BY <1>14
<1> HIDE DEF chosen
<1>16. \A T \in covers \ {chosen} : Above(Ranks(ranking, chosen), Ranks(ranking, T))
  BY <1>11, <1>15 DEF best
<1> QED
  BY <1>3, <1>15, <1>16 DEF chosen, covers, ranking

(* The consent selected is within the ranking, covers every tool, and is   *)
(* the least of those that do.                                             *)
Least(registry, tools, ranking, S) ==
  /\ S \subseteq ToSet(ranking)
  /\ \A t \in tools : registry.scopes[t] \cap S # {}
  /\ \A T \in (SUBSET ToSet(ranking)) \ {S} :
       (\A t \in tools : T \cap registry.scopes[t] # {}) =>
         \E s \in T \ S : \A u \in S \ T : Rank(ranking, u) < Rank(ranking, s)

(* No cover from the whole ranking is narrower either: what a cover has    *)
(* outside of the pool covers nothing.                                     *)
LEMMA SelectedIsLeast ==
  ASSUME NEW registry, NEW p, NEW tools, tools # {}, \A t \in tools : ProviderOf[t] = p,
         registry.ranking[p] \in Seq(ToSet(registry.ranking[p])),
         SelectRequiredScopes(registry, tools) # {}
  PROVE  Least(registry, tools, registry.ranking[p], SelectRequiredScopes(registry, tools))
<1> DEFINE S == SelectRequiredScopes(registry, tools)
           ranking == registry.ranking[p]
           pool == Pool(registry, tools)
<1>1. /\ S \in Covers(registry, tools)
      /\ \A T \in Covers(registry, tools) \ {S} :
           Above(Ranks(ranking, S), Ranks(ranking, T))
  BY ConsentSelected
<1>2. S \subseteq pool /\ \A t \in tools : S \cap Alternatives(registry, t) # {}
  BY <1>1, CoversOfPool
<1>3. \A t \in tools : Alternatives(registry, t) = registry.scopes[t] \cap ToSet(ranking)
  BY DEF Alternatives
<1>4. pool \subseteq ToSet(ranking)
  BY <1>3 DEF Pool
<1> HIDE DEF S, ranking
<1>5. \A t \in tools : registry.scopes[t] \cap S # {}
  BY <1>2, <1>3
<1>6. ASSUME NEW T \in (SUBSET ToSet(ranking)) \ {S},
             \A t \in tools : T \cap registry.scopes[t] # {}
      PROVE  \E s \in T \ S : \A u \in S \ T : Rank(ranking, u) < Rank(ranking, s)
  <2> DEFINE ranked == T \cap pool
  <2>1. ranked \in Covers(registry, tools)
    <3>1. \A t \in tools : Alternatives(registry, t) \subseteq pool
      BY DEF Pool
    <3>2. \A t \in tools : ranked \cap Alternatives(registry, t) # {}
      BY <1>3, <1>6, <3>1
    <3> QED
      BY <3>2, CoversOfPool
  <2> HIDE DEF pool
  <2>2. CASE ranked = S
    <3>1. PICK s \in T : s \notin S
      BY <2>2
    <3>2. S \ T = {}
      BY <2>2
    <3> QED
      BY <3>1, <3>2
  <2>3. CASE ranked # S
    <3>1. Above(Ranks(ranking, S), Ranks(ranking, ranked))
      BY <1>1, <2>1, <2>3
    <3>2. PICK m \in Ranks(ranking, ranked) :
            /\ m \notin Ranks(ranking, S)
            /\ \A u \in Ranks(ranking, S) \ Ranks(ranking, ranked) : u < m
      BY <3>1 DEF Above
    <3>3. PICK s \in ranked : m = Rank(ranking, s)
      BY <3>2 DEF Ranks
    <3>4. s \in T \ S
      BY <3>2, <3>3 DEF Ranks
    <3>5. ASSUME NEW u \in S \ T PROVE Rank(ranking, u) < Rank(ranking, s)
      <4>1. u \in ToSet(ranking) /\ u \notin ranked /\ ranked \subseteq ToSet(ranking)
        BY <1>2, <1>4
      <4>2. Rank(ranking, u) \notin Ranks(ranking, ranked)
        BY <4>1, RanksOf DEF ranking
      <4>3. Rank(ranking, u) \in Ranks(ranking, S)
        BY DEF Ranks
      <4> QED
        BY <3>2, <3>3, <4>2, <4>3
    <3> QED
      BY <3>4, <3>5
  <2> QED
    BY <2>2, <2>3
<1>7. S \subseteq ToSet(ranking)
  BY <1>2, <1>4
<1> QED
  BY <1>5, <1>6, <1>7 DEF Least, S, ranking

-----------------------------------------------------------------------------
(* Compiling ends.                                                         *)
LEMMA LeastNumber ==
  ASSUME NEW T, T \subseteq Nat, T # {}
  PROVE  \E k \in T : \A j \in T : k <= j
<1>1. PICK k \in T : \A j \in T : <<j, k>> \notin OpToRel(<, Nat)
  BY NatLessThanWellFounded, WFMin
<1>2. \A j \in T : ~(j < k)
  BY <1>1 DEF OpToRel
<1>3. k \in Nat /\ \A j \in T : j \in Nat
  OBVIOUS
<1> QED
  BY <1>2, <1>3

(* A folder's file, where there is one, lists tools and Angels.            *)
WellFormed(repository) ==
  \A n \in LocalAngels : repository[n] # Failed =>
    /\ repository[n].tools \in Seq(ToSet(repository[n].tools))
    /\ repository[n].angels \in Seq(LocalAngels)

(* The names that files have, and those a path has met.                    *)
Named(repository) == {repository[n].name : n \in LocalAngels}

Ancestors(repository, path) == {repository[n].name : n \in ToSet(Front(path))}

(* The names that a path can still meet.                                   *)
Room(repository, path) == Cardinality(Named(repository) \ Ancestors(repository, path))

(* A path that goes on to one more folder.                                 *)
LEMMA PathStep ==
  ASSUME NEW path \in Paths, NEW n \in LocalAngels
  PROVE  /\ Append(path, n) \in Paths /\ Last(Append(path, n)) = n
         /\ Front(Append(path, n)) = path
         /\ Last(path) \in LocalAngels /\ ToSet(Front(path)) \subseteq LocalAngels
         /\ ToSet(path) = ToSet(Front(path)) \cup {Last(path)}
<1> DEFINE longer == Append(path, n)
<1>1. path \in Seq(LocalAngels) /\ path # <<>>
  BY DEF Paths
<1>2. Len(path) \in Nat \ {0} /\ DOMAIN path = 1 .. Len(path)
  BY <1>1, EmptySeq, LenProperties
<1>3. \A i \in 1 .. Len(path) : path[i] \in LocalAngels
  BY <1>1, ElementOfSeq
<1>4. /\ longer \in Seq(LocalAngels) /\ longer # <<>> /\ Len(longer) = Len(path) + 1
      /\ \A i \in 1 .. Len(path) : longer[i] = path[i]
      /\ longer[Len(path) + 1] = n
  BY <1>1, AppendProperties
<1> HIDE DEF longer
<1>5. longer \in Paths /\ Last(longer) = n
  BY <1>4 DEF Paths, Last
<1>6. Front(longer) = path
  <2>1. Len(longer) - 1 = Len(path)
    BY <1>2, <1>4
  <2>2. Front(longer) = SubSeq(longer, 1, Len(path))
    BY <2>1 DEF Front
  <2>3. /\ SubSeq(longer, 1, Len(path)) \in Seq(LocalAngels)
        /\ Len(SubSeq(longer, 1, Len(path))) = Len(path)
        /\ \A i \in 1 .. Len(path) : SubSeq(longer, 1, Len(path))[i] = longer[i]
    BY <1>2, <1>3, <1>4, SubSeqProperties
  <2> QED
    BY <1>1, <1>4, <2>2, <2>3, SeqEqual
<1>7. /\ DOMAIN Front(path) = 1 .. Len(path) - 1
      /\ \A i \in 1 .. Len(path) - 1 : Front(path)[i] = path[i]
  <2>1. \A i \in 1 .. Len(path) - 1 : path[i] \in LocalAngels
    BY <1>2, <1>3
  <2>2. /\ Front(path) \in Seq(LocalAngels) /\ Len(Front(path)) = Len(path) - 1
        /\ \A i \in 1 .. Len(path) - 1 : Front(path)[i] = path[i]
    BY <1>2, <2>1, SubSeqProperties DEF Front
  <2> QED
    BY <2>2, LenProperties
<1>8. Last(path) \in LocalAngels
  BY <1>2, <1>3 DEF Last
<1>9. ToSet(path) = ToSet(Front(path)) \cup {Last(path)}
  <2>1. \A x : x \in ToSet(path) <=> \E i \in 1 .. Len(path) : path[i] = x
    BY <1>2 DEF ToSet
  <2>2. \A x : x \in ToSet(Front(path)) <=> \E i \in 1 .. Len(path) - 1 : path[i] = x
    BY <1>7 DEF ToSet
  <2>3. \A i \in 1 .. Len(path) : i \in 1 .. Len(path) - 1 \/ i = Len(path)
    <3>1. Len(path) \in Nat
      BY <1>2
    <3> QED
      BY <3>1
  <2>4. 1 .. Len(path) - 1 \subseteq 1 .. Len(path) /\ Len(path) \in 1 .. Len(path)
    BY <1>2
  <2>5. \A x \in ToSet(path) : x \in ToSet(Front(path)) \/ x = Last(path)
    BY <2>1, <2>2, <2>3 DEF Last
  <2>6. \A x : x \in ToSet(Front(path)) \/ x = Last(path) => x \in ToSet(path)
    BY <2>1, <2>2, <2>4 DEF Last
  <2> QED
    BY <2>5, <2>6
<1>10. ToSet(Front(path)) \subseteq LocalAngels
  <2>1. 1 .. Len(path) - 1 \subseteq 1 .. Len(path)
    BY <1>2
  <2> QED
    BY <1>3, <1>7, <2>1 DEF ToSet
<1> QED
  BY <1>5, <1>6, <1>8, <1>9, <1>10 DEF longer

(* A path has room for finitely many names.                                *)
LEMMA RoomType ==
  ASSUME NEW repository, NEW path \in Paths
  PROVE  /\ IsFiniteSet(Named(repository) \ Ancestors(repository, path))
         /\ Room(repository, path) \in Nat
<1> DEFINE name == [n \in LocalAngels |-> repository[n].name]
<1>1. name \in Surjection(LocalAngels, Named(repository))
  BY DEF Surjection, Named
<1>2. IsFiniteSet(Named(repository))
  BY <1>1, FS_Surjection, CompileAssumption
<1> QED
  BY <1>2, FS_Difference, FS_CardinalityType DEF Room

(* Each folder on the way takes a name that is not met again.              *)
LEMMA RoomShrinks ==
  ASSUME NEW repository, NEW path \in Paths, NEW n \in LocalAngels,
         repository[Last(path)].name \notin Ancestors(repository, path)
  PROVE  /\ Room(repository, Append(path, n)) < Room(repository, path)
         /\ Ancestors(repository, Append(path, n))
              = Ancestors(repository, path) \cup {repository[Last(path)].name}
<1> DEFINE longer == Append(path, n)
           before == Named(repository) \ Ancestors(repository, path)
           after == Named(repository) \ Ancestors(repository, longer)
<1>1. /\ longer \in Paths /\ Front(longer) = path /\ Last(path) \in LocalAngels
      /\ ToSet(path) = ToSet(Front(path)) \cup {Last(path)}
  BY PathStep
<1>2. Ancestors(repository, longer)
        = Ancestors(repository, path) \cup {repository[Last(path)].name}
  BY <1>1 DEF Ancestors
<1>3. repository[Last(path)].name \in Named(repository)
  BY <1>1 DEF Named
<1>4. after \in SUBSET before /\ after # before
  BY <1>2, <1>3
<1>5. /\ IsFiniteSet(before) /\ Cardinality(before) \in Nat /\ Cardinality(after) \in Nat
  BY <1>1, RoomType DEF Room
<1> HIDE DEF before, after
<1>6. /\ Cardinality(after) <= Cardinality(before)
      /\ Cardinality(before) = Cardinality(after) => before = after
  BY <1>4, <1>5, FS_Subset
<1>7. Cardinality(after) < Cardinality(before)
  BY <1>4, <1>5, <1>6
<1> QED
  BY <1>2, <1>7 DEF Room, before, after

-----------------------------------------------------------------------------
(* The body of compileSource.                                              *)
ChildrenOf(compiled, path, repository) ==
  {compiled[Append(path, n)] : n \in ToSet(repository[Last(path)].angels)}

(* What one call returns, where compiled says what the calls it makes      *)
(* return.                                                                 *)
Compiling(compiled, path, repository, registry) ==
  LET source == repository[Last(path)]
      names  == ToSet(source.angels)
  IN  IF source = Failed THEN Failed
      ELSE IF (source.tools = <<>>) = (source.angels = <<>>) THEN Failed
      ELSE IF source.tools # <<>> THEN Leaf(source, registry)
      ELSE IF source.name \in Ancestors(repository, path) \/ ~IsInjective(source.angels)
           THEN Failed
      ELSE IF \E n \in names : compiled[Append(path, n)] = Failed THEN Failed
      ELSE IF \E n \in names : compiled[Append(path, n)].name # n THEN Failed
      ELSE Composite(source, ChildrenOf(compiled, path, repository), registry)

(* A solution of the recursion.                                            *)
Compiles(compiled, repository, registry) ==
  compiled = [path \in Paths |-> Compiling(compiled, path, repository, registry)]

(* The recursive function of CompileSource is a solution if there is one.  *)
LEMMA CompileSourceChosen ==
  ASSUME NEW repository, NEW registry
  PROVE  CompileSource(repository, registry)
           = CHOOSE compiled : Compiles(compiled, repository, registry)
BY DEF CompileSource, Compiles, Compiling, ChildrenOf, Ancestors

(* What is compiled depends on the file, on whether its name is among the  *)
(* ancestors, and on what its children are compiled to.                    *)
Descends(repository, path) ==
  /\ repository[Last(path)] # Failed /\ repository[Last(path)].tools = <<>>
  /\ repository[Last(path)].name \notin Ancestors(repository, path)

(* Two calls for the same folder return the same when both descend or      *)
(* neither does, and their children are compiled to the same.              *)
LEMMA SameCompiling ==
  ASSUME NEW repository, NEW registry, NEW f, NEW g, NEW p, NEW q, Last(p) = Last(q),
         repository[Last(p)] # Failed /\ repository[Last(p)].tools = <<>> =>
           (Descends(repository, p) <=> Descends(repository, q)),
         Descends(repository, p) =>
           \A n \in ToSet(repository[Last(p)].angels) : f[Append(p, n)] = g[Append(q, n)]
  PROVE  Compiling(f, p, repository, registry) = Compiling(g, q, repository, registry)
<1> DEFINE source == repository[Last(p)]
<1>1. CASE ~(source # Failed /\ source.tools = <<>>)
  BY <1>1 DEF Compiling
<1>2. CASE source # Failed /\ source.tools = <<>> /\ ~Descends(repository, p)
  BY <1>2 DEF Compiling, Descends
<1>3. CASE Descends(repository, p)
  <2>1. \A n \in ToSet(source.angels) : f[Append(p, n)] = g[Append(q, n)]
    BY <1>3
  <2>2. ChildrenOf(f, p, repository) = ChildrenOf(g, q, repository)
    BY <2>1 DEF ChildrenOf
  <2> QED
    BY <1>3, <2>1, <2>2 DEF Compiling, Descends
<1> QED
  BY <1>1, <1>2, <1>3

(* A function that compiles every path with less room than a bound.        *)
CompilesTo(f, k, repository, registry) ==
  \A path \in Paths :
    Room(repository, path) < k => f[path] = Compiling(f, path, repository, registry)

(* It has one there.                                                       *)
CompilesBelow(k, repository, registry) == \E f : CompilesTo(f, k, repository, registry)

(* A folder composes folders.                                              *)
LEMMA Children ==
  ASSUME NEW repository, WellFormed(repository), NEW path \in Paths,
         Descends(repository, path), NEW n \in ToSet(repository[Last(path)].angels)
  PROVE  n \in LocalAngels
<1>1. Last(path) \in LocalAngels
  <2>1. PICK m \in LocalAngels : TRUE
    <3>1. path \in Seq(LocalAngels) /\ Len(path) \in Nat \ {0}
      BY EmptySeq DEF Paths
    <3> QED
      BY <3>1, ElementOfSeq
  <2> QED
    BY PathStep
<1>2. repository[Last(path)].angels \in Seq(LocalAngels)
  BY <1>1 DEF WellFormed, Descends
<1> QED
  BY <1>2, LenProperties, ElementOfSeq DEF ToSet

(* A solution below one room extends to the next.                          *)
LEMMA CompilesFurther ==
  ASSUME NEW repository, WellFormed(repository), NEW registry, NEW k \in Nat,
         CompilesBelow(k, repository, registry)
  PROVE  \E g : g = [path \in Paths |-> g[path]] /\ CompilesTo(g, k + 1, repository, registry)
<1>1. PICK f : \A path \in Paths : Room(repository, path) < k =>
                 f[path] = Compiling(f, path, repository, registry)
  BY DEF CompilesBelow, CompilesTo
<1> DEFINE g == [path \in Paths |-> Compiling(f, path, repository, registry)]
<1>2. \A path \in Paths : g[path] = Compiling(f, path, repository, registry)
  OBVIOUS
<1>3. g = [path \in Paths |-> g[path]]
  OBVIOUS
<1> HIDE DEF g
<1>4. ASSUME NEW path \in Paths, Room(repository, path) < k + 1
      PROVE  g[path] = Compiling(g, path, repository, registry)
  <2>1. ASSUME Descends(repository, path), NEW n \in ToSet(repository[Last(path)].angels)
        PROVE  f[Append(path, n)] = g[Append(path, n)]
    <3>1. n \in LocalAngels
      BY <2>1, Children
    <3>2. Append(path, n) \in Paths
      BY <3>1, PathStep
    <3>3. Room(repository, Append(path, n)) < Room(repository, path)
      BY <2>1, <3>1, RoomShrinks DEF Descends
    <3>4. Room(repository, Append(path, n)) < k
      <4>1. Room(repository, Append(path, n)) \in Nat /\ Room(repository, path) \in Nat
        BY <3>2, RoomType
      <4> QED
        BY <1>4, <3>3, <4>1
    <3> QED
      BY <1>1, <1>2, <3>2, <3>4
  <2>2. Compiling(f, path, repository, registry) = Compiling(g, path, repository, registry)
    BY <2>1, SameCompiling
  <2> QED
    BY <1>2, <2>2
<1>5. CompilesTo(g, k + 1, repository, registry)
  BY <1>4 DEF CompilesTo
<1> QED
  BY <1>3, <1>5

(* A least room without a solution contradicts that.                       *)
LEMMA CompilesEverywhere ==
  ASSUME NEW repository, WellFormed(repository), NEW registry
  PROVE  \A k \in Nat : CompilesBelow(k, repository, registry)
<1> DEFINE bad == {k \in Nat : ~CompilesBelow(k, repository, registry)}
<1>1. ASSUME bad # {} PROVE FALSE
  <2>1. bad \subseteq Nat
    OBVIOUS
  <2>2. \A k \in Nat : k \in bad <=> ~CompilesBelow(k, repository, registry)
    OBVIOUS
  <2> HIDE DEF bad
  <2>3. PICK k \in bad : \A j \in bad : k <= j
    BY <1>1, <2>1, LeastNumber
  <2>4. k \in Nat
    BY <2>1
  <2>5. k # 0
    <3>1. ASSUME k = 0 PROVE FALSE
      <4>1. ASSUME NEW path \in Paths PROVE ~(Room(repository, path) < 0)
        <5>1. Room(repository, path) \in Nat
          BY RoomType
        <5> QED
          BY <5>1
      <4>2. CompilesBelow(0, repository, registry)
        BY <4>1 DEF CompilesBelow, CompilesTo
      <4> QED
        BY <2>2, <2>4, <3>1, <4>2
    <3> QED
      BY <3>1
  <2>6. k - 1 \in Nat /\ k - 1 \notin bad /\ (k - 1) + 1 = k
    BY <2>3, <2>4, <2>5
  <2>7. CompilesBelow(k - 1, repository, registry)
    BY <2>2, <2>6
  <2>8. CompilesBelow((k - 1) + 1, repository, registry)
    <3> DEFINE j == k - 1
    <3>1. j \in Nat /\ CompilesBelow(j, repository, registry)
      BY <2>6, <2>7
    <3> HIDE DEF j
    <3>2. CompilesBelow(j + 1, repository, registry)
      BY <3>1, CompilesFurther DEF CompilesBelow
    <3> QED
      BY <3>2 DEF j
  <2> QED
    BY <2>2, <2>4, <2>6, <2>8
<1> QED
  BY <1>1

(* The recursion of compileSource has a solution: what CompileSource is.   *)
LEMMA CompileSourceCompiles ==
  ASSUME NEW repository, WellFormed(repository), NEW registry
  PROVE  Compiles(CompileSource(repository, registry), repository, registry)
<1> DEFINE k == Cardinality(Named(repository))
<1>1. IsFiniteSet(Named(repository)) /\ k \in Nat
  <2> DEFINE name == [n \in LocalAngels |-> repository[n].name]
  <2>1. name \in Surjection(LocalAngels, Named(repository))
    BY DEF Surjection, Named
  <2> QED
    BY <2>1, FS_Surjection, FS_CardinalityType, CompileAssumption
<1>2. ASSUME NEW path \in Paths PROVE Room(repository, path) <= k
  <2>1. Named(repository) \ Ancestors(repository, path) \in SUBSET Named(repository)
    OBVIOUS
  <2> QED
    BY <1>1, <2>1, FS_Subset DEF Room
<1> HIDE DEF k
<1>3. CompilesBelow(k, repository, registry)
  BY <1>1, CompilesEverywhere
<1>4. PICK g : /\ g = [path \in Paths |-> g[path]]
               /\ CompilesTo(g, k + 1, repository, registry)
  BY <1>1, <1>3, CompilesFurther
<1>5. ASSUME NEW path \in Paths
      PROVE  g[path] = Compiling(g, path, repository, registry)
  <2>1. Room(repository, path) \in Nat /\ Room(repository, path) <= k
    BY <1>2, RoomType
  <2>2. Room(repository, path) < k + 1
    BY <1>1, <2>1
  <2> QED
    BY <1>4, <2>2 DEF CompilesTo
<1>6. Compiles(g, repository, registry)
  BY <1>4, <1>5 DEF Compiles
<1> QED
  BY <1>6, CompileSourceChosen

-----------------------------------------------------------------------------
(* What is compiled is accepted.                                           *)

(* A requirement lists the tools that one folder has of one provider, and  *)
(* names that folder.                                                      *)
FromLeaf(r, path, repository, registry) ==
  /\ r.tools \subseteq DOMAIN registry.scopes
  /\ \E n \in LocalAngels :
       /\ n = r.source \/ n = Last(path)
       /\ repository[n].name = r.source
       /\ r.tools = NamesOf(ToolsOf(repository[n], registry), r.provider)

(* What is compiled is accepted, and its requirements are of leaves.       *)
Sound(artifact, path, repository, registry) ==
  artifact # Failed =>
    /\ Accepted(artifact, repository[Last(path)].name, registry)
    /\ \A r \in artifact.requirements : FromLeaf(r, path, repository, registry)

(* A leaf is sound,                                                        *)
LEMMA SoundLeaf ==
  ASSUME NEW repository, WellFormed(repository), NEW registry, Complete(registry),
         NEW path \in Paths, Last(path) \in LocalAngels,
         repository[Last(path)] # Failed, repository[Last(path)].tools # <<>>
  PROVE  Sound(Leaf(repository[Last(path)], registry), path, repository, registry)
<1> DEFINE source == repository[Last(path)]
           artifact == Leaf(source, registry)
           tools == ToolsOf(source, registry)
           requirements == RequirementsFor(source.name, tools, registry)
<1> SUFFICES ASSUME artifact # Failed
             PROVE  /\ Accepted(artifact, source.name, registry)
                    /\ \A r \in artifact.requirements : FromLeaf(r, path, repository, registry)
  BY DEF Sound
<1>1. DOMAIN source.tools # {}
  <2>1. source.tools \in Seq(ToSet(source.tools))
    BY DEF WellFormed
  <2>2. Len(source.tools) \in Nat \ {0} /\ DOMAIN source.tools = 1 .. Len(source.tools)
    BY <2>1, EmptySeq, LenProperties
  <2>3. 1 \in 1 .. Len(source.tools)
    BY <2>2
  <2> QED
    BY <2>2, <2>3
<1>2. Accepted(artifact, source.name, registry)
  BY <1>1, LeavesAreAccepted
<1>3. /\ DirectTools(source.tools, registry)
      /\ artifact = Artifact(source.name, {}, tools, requirements, registry)
  BY DEF Leaf, ToolsOf
<1>4. artifact.requirements = requirements
  BY <1>3, ArtifactMade
<1>5. \A p : /\ LeafRequirement(source.name, tools, registry, p).source = source.name
             /\ LeafRequirement(source.name, tools, registry, p).provider = p
             /\ LeafRequirement(source.name, tools, registry, p).tools = NamesOf(tools, p)
  BY DEF LeafRequirement
<1>6. requirements = {LeafRequirement(source.name, tools, registry, p) : p \in ProvidersOf(tools)}
  BY LeafRequirements
<1>7. \A t \in tools : t.name \in DOMAIN registry.scopes
  <2>1. \A i \in DOMAIN source.tools : source.tools[i].tool \in DOMAIN registry.scopes
    BY <1>3 DEF DirectTools
  <2>2. \A t \in tools : \E i \in DOMAIN source.tools : t.name = source.tools[i].tool
    BY DEF ToolsOf, SourceTool
  <2> QED
    BY <2>1, <2>2
<1> HIDE DEF source, tools, artifact, requirements
<1>8. ASSUME NEW r \in requirements PROVE FromLeaf(r, path, repository, registry)
  <2>1. PICK p \in ProvidersOf(tools) : r = LeafRequirement(source.name, tools, registry, p)
    BY <1>6
  <2>2. r.source = source.name /\ r.provider = p /\ r.tools = NamesOf(tools, p)
    BY <1>5, <2>1
  <2>3. r.tools \subseteq DOMAIN registry.scopes
    BY <1>7, <2>2, NamedBy
  <2>4. /\ repository[Last(path)].name = r.source
        /\ r.tools = NamesOf(ToolsOf(repository[Last(path)], registry), r.provider)
    BY <2>2 DEF source, tools
  <2> QED
    BY <2>3, <2>4 DEF FromLeaf
<1> QED
  BY <1>2, <1>4, <1>8

(* a composite of what is sound is sound,                                  *)
LEMMA SoundComposite ==
  ASSUME NEW repository, WellFormed(repository), NEW registry, Complete(registry),
         NEW path \in Paths, NEW compiled, Descends(repository, path),
         repository[Last(path)].angels # <<>>, Last(path) \in LocalAngels,
         \A n \in ToSet(repository[Last(path)].angels) :
           /\ compiled[Append(path, n)] # Failed
           /\ compiled[Append(path, n)].name = n
           /\ Sound(compiled[Append(path, n)], Append(path, n), repository, registry)
  PROVE  Sound(Composite(repository[Last(path)], ChildrenOf(compiled, path, repository), registry),
               path, repository, registry)
<1> DEFINE source == repository[Last(path)]
           names == ToSet(source.angels)
           children == ChildrenOf(compiled, path, repository)
           artifact == Composite(source, children, registry)
           theirs == UNION {c.requirements : c \in children}
<1> SUFFICES ASSUME artifact # Failed
             PROVE  /\ Accepted(artifact, source.name, registry)
                    /\ \A r \in artifact.requirements : FromLeaf(r, path, repository, registry)
  BY DEF Sound
<1>1. \A n \in names : n \in LocalAngels /\ Last(Append(path, n)) = n
  BY Children, PathStep
<1>2. \A n \in names : /\ Accepted(compiled[Append(path, n)], n, registry)
                       /\ repository[n].name = n
  BY <1>1 DEF Sound, Accepted, AssertArtifact
<1>3. /\ \A c \in children : \E n \in names : c = compiled[Append(path, n)]
      /\ \A n \in names : compiled[Append(path, n)] \in children
  BY DEF ChildrenOf
<1>4. \A c \in children : Accepted(c, c.name, registry)
  BY <1>2, <1>3
<1>5. children # {}
  <2>1. source.angels \in Seq(LocalAngels)
    BY DEF WellFormed, Descends
  <2>2. Len(source.angels) \in Nat \ {0} /\ DOMAIN source.angels = 1 .. Len(source.angels)
    BY <2>1, EmptySeq, LenProperties
  <2>3. 1 \in DOMAIN source.angels
    BY <2>2
  <2>4. names # {}
    BY <2>3 DEF ToSet
  <2> HIDE DEF names, children
  <2> QED
    BY <1>3, <2>4
<1> HIDE DEF children
<1>6. Accepted(artifact, source.name, registry)
  BY <1>4, <1>5, CompositesAreAccepted
<1>7. artifact = Artifact(source.name, children, UNION {c.tools : c \in children},
                          RebaseComposedRequirements(theirs), registry)
  BY DEF Composite
<1>8. artifact.requirements = RebaseComposedRequirements(theirs)
  BY <1>7, ArtifactMade
<1>9. \A r \in theirs : \E c \in children : r \in c.requirements
  OBVIOUS
<1>10. \A r \in theirs : Formed(r)
  BY <1>4, <1>9 DEF Accepted
<1>11. artifact.requirements = {Rebased(theirs, r) : r \in theirs}
  BY <1>8, <1>10, RebasedRequirements
<1>12. \A r : /\ Rebased(theirs, r).source = r.source
              /\ Rebased(theirs, r).provider = r.provider
              /\ Rebased(theirs, r).tools = r.tools
  BY DEF Rebased
<1> HIDE DEF artifact, theirs, source
<1>13. ASSUME NEW s \in theirs PROVE FromLeaf(Rebased(theirs, s), path, repository, registry)
  <2>1. PICK n \in names : s \in compiled[Append(path, n)].requirements
    BY <1>3, <1>9
  <2>2. FromLeaf(s, Append(path, n), repository, registry) /\ repository[n].name = n
    BY <1>2, <2>1 DEF Sound, source
  <2>3. PICK l \in LocalAngels :
          /\ l = s.source \/ l = n
          /\ repository[l].name = s.source
          /\ s.tools = NamesOf(ToolsOf(repository[l], registry), s.provider)
    BY <1>1, <2>2 DEF FromLeaf
  <2>4. l = s.source
    BY <2>2, <2>3
  <2>5. s.tools \subseteq DOMAIN registry.scopes
    BY <2>2 DEF FromLeaf
  <2> QED
    BY <1>12, <2>3, <2>4, <2>5 DEF FromLeaf
<1> QED
  BY <1>6, <1>11, <1>13

(* and so is what a call returns when what it is given is sound.           *)
LEMMA SoundStep ==
  ASSUME NEW repository, WellFormed(repository), NEW registry, Complete(registry),
         NEW compiled, NEW path \in Paths,
         compiled[path] = Compiling(compiled, path, repository, registry),
         \A n \in LocalAngels : Descends(repository, path) =>
           Sound(compiled[Append(path, n)], Append(path, n), repository, registry)
  PROVE  Sound(compiled[path], path, repository, registry)
<1> DEFINE source == repository[Last(path)]
           names == ToSet(source.angels)
<1> SUFFICES ASSUME compiled[path] # Failed
             PROVE  Sound(compiled[path], path, repository, registry)
  BY DEF Sound
<1>1. Last(path) \in LocalAngels
  <2>1. path \in Seq(LocalAngels) /\ Len(path) \in Nat \ {0}
    BY EmptySeq DEF Paths
  <2> QED
    BY <2>1, ElementOfSeq DEF Last
<1>2. source # Failed /\ (source.tools = <<>>) # (source.angels = <<>>)
  BY DEF Compiling
<1>3. CASE source.tools # <<>>
  <2>1. compiled[path] = Leaf(source, registry)
    BY <1>2, <1>3 DEF Compiling
  <2> QED
    BY <1>1, <1>2, <1>3, <2>1, SoundLeaf
<1>4. CASE source.tools = <<>>
  <2>1. Descends(repository, path) /\ source.angels # <<>>
    BY <1>2, <1>4 DEF Compiling, Descends
  <2>2. /\ \A n \in names : /\ compiled[Append(path, n)] # Failed
                            /\ compiled[Append(path, n)].name = n
        /\ compiled[path] = Composite(source, ChildrenOf(compiled, path, repository), registry)
    BY <1>2, <1>4 DEF Compiling
  <2>3. \A n \in names : Sound(compiled[Append(path, n)], Append(path, n), repository, registry)
    BY <2>1, Children
  <2> QED
    BY <1>1, <2>1, <2>2, <2>3, SoundComposite
<1> QED
  BY <1>3, <1>4

(* Whatever is compiled from well formed files with a complete registry is *)
(* sound.                                                                  *)
LEMMA CompiledIsSound ==
  ASSUME NEW repository, WellFormed(repository), NEW registry, Complete(registry),
         NEW compiled, Compiles(compiled, repository, registry), NEW path \in Paths
  PROVE  Sound(compiled[path], path, repository, registry)
<1> DEFINE sound(p) == Sound(compiled[p], p, repository, registry)
           bad == {p \in Paths : ~sound(p)}
           rooms == {Room(repository, p) : p \in bad}
<1>1. \A p \in Paths : compiled[p] = Compiling(compiled, p, repository, registry)
  BY DEF Compiles
<1>2. \A p : p \in bad <=> p \in Paths /\ ~sound(p)
  OBVIOUS
<1>3. /\ \A k \in rooms : \E p \in bad : k = Room(repository, p)
      /\ \A p \in bad : Room(repository, p) \in rooms
  OBVIOUS
<1> HIDE DEF sound, bad, rooms
<1>4. rooms \subseteq Nat
  <2>1. \A p \in Paths : Room(repository, p) \in Nat
    BY RoomType
  <2> QED
    BY <1>2, <1>3, <2>1
<1>5. ASSUME rooms # {} PROVE FALSE
  <2>1. PICK k \in rooms : \A j \in rooms : k <= j
    BY <1>4, <1>5, LeastNumber
  <2>2. PICK p \in bad : k = Room(repository, p)
    BY <1>3
  <2>3. p \in Paths
    BY <1>2
  <2>4. ASSUME NEW n \in LocalAngels, Descends(repository, p) PROVE sound(Append(p, n))
    <3>1. Append(p, n) \in Paths
      BY <2>3, PathStep
    <3>2. Room(repository, Append(p, n)) < Room(repository, p)
      BY <2>3, <2>4, RoomShrinks DEF Descends
    <3>3. Room(repository, Append(p, n)) \in Nat /\ Room(repository, p) \in Nat
      BY <2>3, <3>1, RoomType
    <3>4. Room(repository, Append(p, n)) \notin rooms
      BY <2>1, <2>2, <3>2, <3>3
    <3> QED
      BY <1>2, <1>3, <3>1, <3>4
  <2>5. sound(p)
    BY <1>1, <2>3, <2>4, SoundStep DEF sound
  <2> QED
    BY <1>2, <2>5
<1>6. path \notin bad
  BY <1>3, <1>5
<1> QED
  BY <1>2, <1>6 DEF sound

-----------------------------------------------------------------------------
(* Angels that build compose.                                              *)

(* A path below one more folder ends as it did and has met one more name.  *)
LEMMA Prepend ==
  ASSUME NEW n \in LocalAngels, NEW path \in Paths, NEW repository
  PROVE  /\ <<n>> \o path \in Paths /\ Last(<<n>> \o path) = Last(path)
         /\ Ancestors(repository, <<n>> \o path)
              = Ancestors(repository, path) \cup {repository[n].name}
         /\ \A m \in LocalAngels : Append(<<n>> \o path, m) = <<n>> \o Append(path, m)
<1> DEFINE longer == <<n>> \o path
<1>1. /\ path \in Seq(LocalAngels) /\ <<n>> \in Seq(LocalAngels)
      /\ Len(path) \in Nat \ {0} /\ Len(<<n>>) = 1
  BY EmptySeq DEF Paths
<1>2. \A i \in 1 .. Len(path) : path[i] \in LocalAngels
  BY <1>1, ElementOfSeq
<1>3. /\ longer \in Seq(LocalAngels) /\ Len(longer) = Len(path) + 1
      /\ longer[1] = n
      /\ \A i \in 1 .. Len(path) : longer[i + 1] = path[i]
  <2>1. /\ longer \in Seq(LocalAngels) /\ Len(longer) = 1 + Len(path)
        /\ \A i \in 1 .. 1 + Len(path) :
             longer[i] = IF i <= 1 THEN <<n>>[i] ELSE path[i - 1]
    BY <1>1, ConcatProperties
  <2> HIDE DEF longer
  <2>2. longer[1] = n
    <3>1. 1 \in 1 .. 1 + Len(path)
      BY <1>1
    <3> QED
      BY <2>1, <3>1
  <2>3. ASSUME NEW i \in 1 .. Len(path) PROVE longer[i + 1] = path[i]
    <3>1. i + 1 \in 1 .. 1 + Len(path) /\ ~(i + 1 <= 1) /\ (i + 1) - 1 = i
      BY <1>1
    <3> QED
      BY <2>1, <3>1
  <2>4. Len(longer) = Len(path) + 1
    BY <1>1, <2>1
  <2> QED
    BY <2>1, <2>2, <2>3, <2>4
<1>4. \A m \in LocalAngels : Append(longer, m) = <<n>> \o Append(path, m)
  <2> SUFFICES ASSUME NEW m \in LocalAngels PROVE Append(longer, m) = <<n>> \o Append(path, m)
    OBVIOUS
  <2>1. <<m>> \in Seq(LocalAngels)
    OBVIOUS
  <2>2. (<<n>> \o path) \o <<m>> = <<n>> \o (path \o <<m>>)
    BY <1>1, <2>1, ConcatAssociative
  <2>3. Append(path, m) = path \o <<m>>
    BY <1>1, AppendIsConcat
  <2>4. Append(longer, m) = longer \o <<m>>
    BY <1>3, AppendIsConcat
  <2> QED
    BY <2>2, <2>3, <2>4
<1> HIDE DEF longer
<1>5. longer \in Paths
  <2>1. longer # <<>>
    BY <1>1, <1>3, EmptySeq
  <2> QED
    BY <1>3, <2>1 DEF Paths
<1>6. Last(longer) = Last(path)
  <2>1. Len(path) \in 1 .. Len(path)
    BY <1>1
  <2> QED
    BY <1>3, <2>1 DEF Last
<1>7. ToSet(Front(longer)) = ToSet(Front(path)) \cup {n}
  <2> DEFINE k == Len(path)
  <2>1. k \in Nat /\ k # 0
    BY <1>1
  <2>2. /\ \A i \in 1 .. k - 1 : path[i] \in LocalAngels
        /\ \A i \in 1 .. k : longer[i] \in LocalAngels
    <3>1. 1 .. k - 1 \subseteq 1 .. k
      BY <2>1
    <3>2. 1 .. k \subseteq 1 .. Len(longer)
      BY <1>3, <2>1
    <3> QED
      BY <1>2, <1>3, <3>1, <3>2, ElementOfSeq
  <2> HIDE DEF k
  <2>3. /\ SubSeq(path, 1, k - 1) \in Seq(LocalAngels)
        /\ Len(SubSeq(path, 1, k - 1)) = k - 1
        /\ \A i \in 1 .. k - 1 : SubSeq(path, 1, k - 1)[i] = path[i]
    BY <2>1, <2>2, SubSeqProperties
  <2>4. /\ SubSeq(longer, 1, k) \in Seq(LocalAngels)
        /\ Len(SubSeq(longer, 1, k)) = k
        /\ \A i \in 1 .. k : SubSeq(longer, 1, k)[i] = longer[i]
    BY <2>1, <2>2, SubSeqProperties
  <2>5. Front(path) = SubSeq(path, 1, k - 1) /\ Front(longer) = SubSeq(longer, 1, k)
    <3>1. Len(longer) - 1 = k
      BY <1>3, <2>1 DEF k
    <3> QED
      BY <3>1 DEF Front, k
  <2>6. DOMAIN Front(path) = 1 .. k - 1 /\ DOMAIN Front(longer) = 1 .. k
    BY <2>3, <2>4, <2>5, LenProperties
  <2>7. \A x : x \in ToSet(Front(path)) <=> \E i \in 1 .. k - 1 : path[i] = x
    BY <2>3, <2>5, <2>6 DEF ToSet
  <2>8. \A x : x \in ToSet(Front(longer)) <=> \E i \in 1 .. k : longer[i] = x
    BY <2>4, <2>5, <2>6 DEF ToSet
  <2>9. ASSUME NEW x \in ToSet(Front(path)) PROVE x \in ToSet(Front(longer))
    <3>1. PICK i \in 1 .. k - 1 : path[i] = x
      BY <2>7
    <3>2. i + 1 \in 1 .. k /\ i \in 1 .. Len(path)
      BY <2>1 DEF k
    <3> QED
      BY <1>3, <2>8, <3>1, <3>2
  <2>10. n \in ToSet(Front(longer))
    <3>1. 1 \in 1 .. k
      BY <2>1
    <3> QED
      BY <1>3, <2>8, <3>1
  <2>11. ASSUME NEW x \in ToSet(Front(longer)), x # n PROVE x \in ToSet(Front(path))
    <3>1. PICK i \in 1 .. k : longer[i] = x
      BY <2>8
    <3>2. i # 1
      BY <1>3, <2>11, <3>1
    <3>3. i - 1 \in 1 .. k - 1 /\ i - 1 \in 1 .. Len(path) /\ (i - 1) + 1 = i
      BY <2>1, <3>2 DEF k
    <3> QED
      BY <1>3, <2>7, <3>1, <3>3
  <2> QED
    BY <2>9, <2>10, <2>11
<1>8. Ancestors(repository, longer) = Ancestors(repository, path) \cup {repository[n].name}
  BY <1>7 DEF Ancestors
<1> QED
  BY <1>4, <1>5, <1>6, <1>8 DEF longer

(* A path that m opens, that compiles, and whose folders are those of      *)
(* compositions.                                                           *)
Opens(m, path, repository, compiled) ==
  /\ path[1] = m
  /\ path = <<m>> \/ repository[m].tools = <<>>
  /\ compiled[path] # Failed /\ compiled[path].name = Last(path)

(* Below the folder n a path that m opens compiles to the same if the      *)
(* paths that go on from it do: n itself is no composite on such a path,   *)
(* as it would compile m below m, which is refused.                        *)
LEMMA OpenedStep ==
  ASSUME NEW repository, WellFormed(repository), NEW registry, Complete(registry),
         NEW compiled, Compiles(compiled, repository, registry),
         NEW n \in LocalAngels, repository[n].name = n, NEW m \in ToSet(repository[n].angels),
         m \in LocalAngels, compiled[<<m>>] # Failed, compiled[<<m>>].name = m,
         NEW path \in Paths, Opens(m, path, repository, compiled),
         \A c \in LocalAngels :
           Descends(repository, path) /\ Opens(m, Append(path, c), repository, compiled) =>
             compiled[<<n>> \o Append(path, c)] = compiled[Append(path, c)]
  PROVE  compiled[<<n>> \o path] = compiled[path]
<1> DEFINE source == repository[Last(path)]
           longer == <<n>> \o path
<1>1. /\ path \in Seq(LocalAngels) /\ Len(path) \in Nat \ {0} /\ <<m>> \in Paths
      /\ Last(path) \in LocalAngels /\ Last(<<m>>) = m
  <2>1. path \in Seq(LocalAngels) /\ Len(path) \in Nat \ {0}
    BY EmptySeq DEF Paths
  <2>2. <<m>> \in Paths /\ Last(<<m>>) = m
    BY DEF Paths, Last
  <2>3. Len(path) \in 1 .. Len(path)
    BY <2>1
  <2> QED
    BY <2>1, <2>2, <2>3, ElementOfSeq DEF Last
<1>2. /\ longer \in Paths /\ Last(longer) = Last(path)
      /\ Ancestors(repository, longer) = Ancestors(repository, path) \cup {n}
      /\ \A c \in LocalAngels : Append(longer, c) = <<n>> \o Append(path, c)
  <2>1. /\ longer \in Paths /\ Last(longer) = Last(path)
        /\ Ancestors(repository, longer)
             = Ancestors(repository, path) \cup {repository[n].name}
    BY Prepend
  <2>2. \A c \in LocalAngels : Append(longer, c) = <<n>> \o Append(path, c)
    BY Prepend
  <2> QED
    BY <2>1, <2>2
<1>3. /\ compiled[path] = Compiling(compiled, path, repository, registry)
      /\ compiled[longer] = Compiling(compiled, longer, repository, registry)
  BY <1>2 DEF Compiles
<1>4. source # Failed /\ source.name = Last(path)
  <2>1. source # Failed
    BY <1>3 DEF Compiling, Opens
  <2>2. Sound(compiled[path], path, repository, registry)
    BY CompiledIsSound
  <2> QED
    BY <2>1, <2>2 DEF Sound, Accepted, AssertArtifact, Opens
<1>5. repository[m].name = m
  <2>1. Sound(compiled[<<m>>], <<m>>, repository, registry)
    BY <1>1, CompiledIsSound
  <2> QED
    BY <1>1, <2>1 DEF Sound, Accepted, AssertArtifact
<1> HIDE DEF longer
<1>6. ASSUME source.tools = <<>>
      PROVE  /\ Descends(repository, path)
             /\ repository[m].tools = <<>>
             /\ \A c \in ToSet(source.angels) :
                  /\ c \in LocalAngels /\ Append(path, c) \in Paths
                  /\ Opens(m, Append(path, c), repository, compiled)
  <2>1. /\ Descends(repository, path)
        /\ \A c \in ToSet(source.angels) :
             compiled[Append(path, c)] # Failed /\ compiled[Append(path, c)].name = c
    BY <1>3, <1>4, <1>6 DEF Compiling, Descends, Opens
  <2>2. repository[m].tools = <<>>
    BY <1>1, <1>6 DEF Opens
  <2>3. ASSUME NEW c \in ToSet(source.angels)
        PROVE  /\ c \in LocalAngels /\ Append(path, c) \in Paths
               /\ Opens(m, Append(path, c), repository, compiled)
    <3>1. c \in LocalAngels
      BY <2>1, Children
    <3>2. Append(path, c) \in Paths /\ Last(Append(path, c)) = c
      BY <3>1, PathStep
    <3>3. Append(path, c)[1] = path[1]
      <4>1. 1 \in 1 .. Len(path)
        BY <1>1
      <4> QED
        BY <1>1, <3>1, <4>1, AppendProperties
    <3> QED
      BY <2>1, <2>2, <3>1, <3>2, <3>3 DEF Opens
  <2> QED
    BY <2>1, <2>2, <2>3
<1>7. ASSUME source.tools = <<>> PROVE Last(path) # n
  <2>1. ASSUME Last(path) = n PROVE FALSE
    <3>1. m \in ToSet(source.angels)
      BY <2>1
    <3>2. /\ Append(path, m) \in Paths /\ compiled[Append(path, m)] # Failed
          /\ repository[m].tools = <<>>
      BY <1>6, <1>7, <3>1 DEF Opens
    <3>3. compiled[Append(path, m)] = Compiling(compiled, Append(path, m), repository, registry)
      BY <3>2 DEF Compiles
    <3>4. Last(Append(path, m)) = m /\ Front(Append(path, m)) = path
      BY PathStep
    <3>5. m \in ToSet(path)
      <4>1. 1 \in DOMAIN path
        BY <1>1, LenProperties
      <4> QED
        BY <4>1 DEF ToSet, Opens
    <3>6. m \in Ancestors(repository, Append(path, m))
      BY <1>5, <3>4, <3>5 DEF Ancestors
    <3> QED
      BY <1>5, <3>2, <3>3, <3>4, <3>6 DEF Compiling
  <2> QED
    BY <2>1
<1>8. source.tools = <<>> => (Descends(repository, path) <=> Descends(repository, longer))
  <2> SUFFICES ASSUME source.tools = <<>>
               PROVE  Descends(repository, path) /\ Descends(repository, longer)
    OBVIOUS
  <2>1. Descends(repository, path) /\ Last(path) # n
    BY <1>6, <1>7
  <2> QED
    BY <1>2, <1>4, <2>1 DEF Descends
<1>9. ASSUME Descends(repository, path), NEW c \in ToSet(source.angels)
      PROVE  compiled[Append(path, c)] = compiled[Append(longer, c)]
  <2>1. source.tools = <<>>
    BY <1>9 DEF Descends
  <2>2. c \in LocalAngels /\ Opens(m, Append(path, c), repository, compiled)
    BY <1>6, <2>1
  <2> QED
    BY <1>2, <1>9, <2>2 DEF longer
<1>10. Compiling(compiled, path, repository, registry)
         = Compiling(compiled, longer, repository, registry)
  BY <1>2, <1>8, <1>9, SameCompiling
<1> QED
  BY <1>3, <1>10 DEF longer

(* An Angel that builds is compiled to the same below a folder that        *)
(* composes it.                                                            *)
LEMMA SameBelow ==
  ASSUME NEW repository, WellFormed(repository), NEW registry, Complete(registry),
         NEW compiled, Compiles(compiled, repository, registry),
         NEW n \in LocalAngels, repository[n].name = n, NEW m \in ToSet(repository[n].angels),
         m \in LocalAngels, compiled[<<m>>] # Failed, compiled[<<m>>].name = m
  PROVE  compiled[Append(<<n>>, m)] = compiled[<<m>>]
<1> DEFINE same(p) == Opens(m, p, repository, compiled) => compiled[<<n>> \o p] = compiled[p]
           bad == {p \in Paths : ~same(p)}
           rooms == {Room(repository, p) : p \in bad}
<1>1. \A p : p \in bad <=> p \in Paths /\ ~same(p)
  OBVIOUS
<1>2. /\ \A k \in rooms : \E p \in bad : k = Room(repository, p)
      /\ \A p \in bad : Room(repository, p) \in rooms
  OBVIOUS
<1> HIDE DEF same, bad, rooms
<1>3. rooms \subseteq Nat
  <2>1. \A p \in Paths : Room(repository, p) \in Nat
    BY RoomType
  <2> QED
    BY <1>1, <1>2, <2>1
<1>4. ASSUME rooms # {} PROVE FALSE
  <2>1. PICK k \in rooms : \A j \in rooms : k <= j
    BY <1>3, <1>4, LeastNumber
  <2>2. PICK p \in bad : k = Room(repository, p)
    BY <1>2
  <2>3. p \in Paths
    BY <1>1
  <2>4. ASSUME NEW c \in LocalAngels, Descends(repository, p) PROVE same(Append(p, c))
    <3>1. Append(p, c) \in Paths
      BY <2>3, PathStep
    <3>2. Room(repository, Append(p, c)) < Room(repository, p)
      BY <2>3, <2>4, RoomShrinks DEF Descends
    <3>3. Room(repository, Append(p, c)) \in Nat /\ Room(repository, p) \in Nat
      BY <2>3, <3>1, RoomType
    <3>4. Room(repository, Append(p, c)) \notin rooms
      BY <2>1, <2>2, <3>2, <3>3
    <3> QED
      BY <1>1, <1>2, <3>1, <3>4
  <2>5. same(p)
    BY <2>3, <2>4, OpenedStep DEF same
  <2> QED
    BY <1>1, <2>5
<1>5. <<m>> \in Paths /\ Opens(m, <<m>>, repository, compiled)
  BY DEF Paths, Opens, Last
<1>6. compiled[<<n>> \o <<m>>] = compiled[<<m>>]
  BY <1>1, <1>2, <1>4, <1>5 DEF same
<1>7. Append(<<n>>, m) = <<n>> \o <<m>>
  OBVIOUS
<1> QED
  BY <1>6, <1>7

(* What a requirement that the compiler makes says of its folder.          *)
Traced(r, repository, registry) ==
  /\ r.source \in LocalAngels
  /\ r.tools \subseteq DOMAIN registry.scopes
  /\ r.tools = NamesOf(ToolsOf(repository[r.source], registry), r.provider)

(* The providers that the requirements of one source have.                 *)
ProvidersOfSource(requirements, r) ==
  {s.provider : s \in {u \in requirements : u.source = r.source}}

(* Accepted artifacts that share no tool make a composite: two             *)
(* requirements that are rebased to one id are of one folder and one       *)
(* provider, so that they list the same tools, and are one.                *)
LEMMA CompositeMade ==
  ASSUME NEW repository, NEW registry, Complete(registry), NEW source, NEW children,
         FlattenTools(children), \A c \in children : Accepted(c, c.name, registry),
         \A c \in children : \A r \in c.requirements : Traced(r, repository, registry)
  PROVE  Composite(source, children, registry) # Failed
<1> DEFINE theirs == UNION {c.requirements : c \in children}
           requirements == RebaseComposedRequirements(theirs)
           tools == UNION {c.tools : c \in children}
<1>1. \A r \in theirs : \E c \in children : r \in c.requirements
  OBVIOUS
<1>2. \A r \in theirs : Formed(r) /\ Traced(r, repository, registry)
  BY <1>1 DEF Accepted
<1>3. requirements = {Rebased(theirs, r) : r \in theirs}
  BY <1>2, RebasedRequirements
<1> HIDE DEF theirs, requirements, tools
<1>4. \A r \in theirs : r.tools # {} /\ r.requiredScopes # {}
  BY <1>1 DEF Accepted, AssertArtifact, ValidRequirements
<1>5. ASSUME NEW r \in theirs
      PROVE  \E o \in Operations : r.provider = ProviderOf[o]
  <2>1. PICK c \in children : r \in c.requirements
    BY <1>1
  <2>2. PICK o \in r.tools : TRUE
    BY <1>4
  <2>3. PICK t \in c.tools : t.name = o /\ t.provider = r.provider
    BY <2>1, <2>2 DEF Accepted, AssertArtifact, ValidRequirements
  <2>4. t.provider = ProviderOf[t.name]
    BY <2>1, <2>3 DEF Accepted, AssertArtifact, ValidTools
  <2>5. o \in Operations
    BY <1>2, <2>2 DEF Traced, Complete
  <2> QED
    BY <2>3, <2>4, <2>5
<1>6. ASSUME NEW r \in theirs, NEW s \in theirs, r.source = s.source, r.provider = s.provider
      PROVE  r = s
  <2>1. r.tools = s.tools /\ r.tools \cap s.tools # {}
    BY <1>2, <1>4, <1>6 DEF Traced
  <2>2. PICK c \in children : r \in c.requirements
    BY <1>1
  <2>3. PICK d \in children : s \in d.requirements
    BY <1>1
  <2> QED
    BY <2>1, <2>2, <2>3, RequirementsApart
<1>7. ASSUME NEW r \in theirs PROVE IsFiniteSet(ProvidersOfSource(theirs, r))
  <2> DEFINE all == {ProviderOf[o] : o \in Operations}
             provider == [o \in Operations |-> ProviderOf[o]]
  <2>1. provider \in Surjection(Operations, all)
    BY DEF Surjection
  <2>2. IsFiniteSet(all)
    BY <2>1, FS_Surjection, CompileAssumption
  <2>3. ProvidersOfSource(theirs, r) \in SUBSET all
    BY <1>5 DEF ProvidersOfSource
  <2> QED
    BY <2>2, <2>3, FS_Subset
<1>8. ASSUME NEW r \in theirs, NEW s \in theirs, r.source = s.source,
             Cardinality(ProvidersOfSource(theirs, r)) = 1
      PROVE  r.provider = s.provider
  <2>1. PICK p : ProvidersOfSource(theirs, r) = {p}
    BY <1>7, <1>8, FS_Singleton
  <2>2. /\ r.provider \in ProvidersOfSource(theirs, r)
        /\ s.provider \in ProvidersOfSource(theirs, r)
    BY <1>8 DEF ProvidersOfSource
  <2> QED
    BY <2>1, <2>2
<1>9. \A r : SourceId(theirs, r) = IF Cardinality(ProvidersOfSource(theirs, r)) = 1
                                   THEN r.source ELSE <<r.source, r.provider>>
  BY DEF SourceId, ProvidersOfSource
<1>10. \A r \in theirs : r.source \in LocalAngels /\ <<r.source, r.provider>> \notin LocalAngels
  BY <1>2, <1>5, CompileAssumption DEF Traced
<1>11. ASSUME NEW r \in theirs, NEW s \in theirs, SourceId(theirs, r) = SourceId(theirs, s)
       PROVE  r = s
  <2>1. CASE Cardinality(ProvidersOfSource(theirs, r)) = 1
    <3>1. SourceId(theirs, r) = r.source
      BY <1>9, <2>1
    <3>2. Cardinality(ProvidersOfSource(theirs, s)) = 1
      BY <1>9, <1>10, <1>11, <3>1
    <3>3. r.source = s.source
      BY <1>9, <1>11, <3>1, <3>2
    <3> QED
      BY <1>6, <1>8, <2>1, <3>3
  <2>2. CASE Cardinality(ProvidersOfSource(theirs, r)) # 1
    <3>1. SourceId(theirs, r) = <<r.source, r.provider>>
      BY <1>9, <2>2
    <3>2. Cardinality(ProvidersOfSource(theirs, s)) # 1
      BY <1>9, <1>10, <1>11, <3>1
    <3>3. <<r.source, r.provider>> = <<s.source, s.provider>>
      BY <1>9, <1>11, <3>1, <3>2
    <3> QED
      BY <1>6, <3>3
  <2> QED
    BY <2>1, <2>2
<1>12. \A r : /\ Rebased(theirs, r).id = SourceId(theirs, r)
              /\ Rebased(theirs, r).requiredScopes = r.requiredScopes
  BY DEF Rebased
<1>13. \A r, s \in requirements : r.id = s.id => r = s
  BY <1>3, <1>11, <1>12
<1>14. \A r \in requirements : r.requiredScopes # {}
  BY <1>3, <1>4, <1>12
<1>15. Composite(source, children, registry)
         = Artifact(source.name, children, tools, requirements, registry)
  BY <1>13 DEF Composite, requirements, theirs, tools
<1>16. Artifact(source.name, children, tools, requirements, registry)
         = [name |-> source.name, children |-> children, tools |-> tools,
            providers |-> ProvidersFor(tools, registry), requirements |-> requirements]
  BY <1>14 DEF Artifact
<1>17. \A a, b, c, d, e :
         [name |-> a, children |-> b, tools |-> c, providers |-> d, requirements |-> e] # Failed
  <2> SUFFICES ASSUME NEW a, NEW b, NEW c, NEW d, NEW e
               PROVE  [name |-> a, children |-> b, tools |-> c, providers |-> d,
                       requirements |-> e] # Failed
    OBVIOUS
  <2>1. "name" \in DOMAIN [name |-> a, children |-> b, tools |-> c, providers |-> d,
                           requirements |-> e]
    OBVIOUS
  <2>2. DOMAIN Failed = {}
    BY DEF Failed
  <2> QED
    BY <2>1, <2>2
<1> QED
  BY <1>15, <1>16, <1>17

(* A folder that composes Angels which build, and which share no tool,     *)
(* builds.                                                                 *)
LEMMA ComposedBuilds ==
  ASSUME NEW repository, WellFormed(repository), NEW registry, Complete(registry),
         NEW n \in LocalAngels, repository[n] # Failed, repository[n].name = n,
         repository[n].tools = <<>>, repository[n].angels # <<>>,
         IsInjective(repository[n].angels),
         \A m \in ToSet(repository[n].angels) : Build(repository, registry, m) # Failed,
         \A m, k \in ToSet(repository[n].angels) : m # k =>
           \A t \in Build(repository, registry, m).tools,
              u \in Build(repository, registry, k).tools : Folded[t.name] # Folded[u.name]
  PROVE  Build(repository, registry, n) # Failed
<1> DEFINE compiled == CompileSource(repository, registry)
           source == repository[n]
           names == ToSet(source.angels)
           path == <<n>>
           children == ChildrenOf(compiled, path, repository)
<1>1. Compiles(compiled, repository, registry)
  BY CompileSourceCompiles
<1> HIDE DEF compiled
<1>2. path \in Paths /\ Last(path) = n /\ Ancestors(repository, path) = {}
  <2>1. path \in Paths /\ Last(path) = n
    BY DEF Paths, Last
  <2>2. Front(path) = SubSeq(path, 1, 0)
    BY DEF Front
  <2>3. Front(path) = <<>>
    BY <2>2, SubSeqEmpty
  <2>4. ToSet(Front(path)) = {}
    BY <2>3 DEF ToSet
  <2> QED
    BY <2>1, <2>4 DEF Ancestors
<1>3. compiled[path] = Compiling(compiled, path, repository, registry)
  BY <1>1, <1>2 DEF Compiles
<1>4. Descends(repository, path)
  BY <1>2 DEF Descends
<1>5. \A m \in names : m \in LocalAngels
  BY <1>2, <1>4, Children
<1>6. \A m \in names : /\ compiled[<<m>>] # Failed /\ compiled[<<m>>].name = m
                       /\ Build(repository, registry, m) = compiled[<<m>>]
  BY DEF Build, compiled
<1>7. \A m \in names : compiled[Append(path, m)] = compiled[<<m>>]
  <2> SUFFICES ASSUME NEW m \in names
               PROVE  compiled[Append(<<n>>, m)] = compiled[<<m>>]
    OBVIOUS
  <2>1. m \in ToSet(repository[n].angels) /\ m \in LocalAngels
    BY <1>5
  <2>2. compiled[<<m>>] # Failed /\ compiled[<<m>>].name = m
    BY <1>6
  <2> HIDE DEF path, names, source
  <2> QED
    BY <1>1, <2>1, <2>2, SameBelow
<1>8. children = {compiled[<<m>>] : m \in names}
  BY <1>2, <1>7 DEF ChildrenOf
<1>9. compiled[path] = Composite(source, children, registry)
  <2>1. \A m \in names : compiled[Append(path, m)] # Failed /\ compiled[Append(path, m)].name = m
    BY <1>6, <1>7
  <2> QED
    BY <1>2, <1>3, <2>1 DEF Compiling
<1>10. \A c \in children : \E m \in names : c = compiled[<<m>>]
  BY <1>8
<1> HIDE DEF children
<1>11. FlattenTools(children)
  <2> SUFFICES ASSUME NEW c \in children, NEW d \in children, c # d
               PROVE  \A t \in c.tools, u \in d.tools : Folded[t.name] # Folded[u.name]
    BY DEF FlattenTools
  <2>1. PICK m \in names : c = compiled[<<m>>]
    BY <1>10
  <2>2. PICK k \in names : d = compiled[<<k>>]
    BY <1>10
  <2>3. m # k /\ c = Build(repository, registry, m) /\ d = Build(repository, registry, k)
    BY <1>6, <2>1, <2>2
  <2> QED
    BY <2>3
<1>12. ASSUME NEW c \in children
       PROVE  /\ Accepted(c, c.name, registry)
              /\ \A r \in c.requirements : Traced(r, repository, registry)
  <2>1. PICK m \in names : c = compiled[<<m>>]
    BY <1>10
  <2>2. <<m>> \in Paths /\ Last(<<m>>) = m
    BY <1>5 DEF Paths, Last
  <2>3. Sound(compiled[<<m>>], <<m>>, repository, registry)
    BY <1>1, <2>2, CompiledIsSound
  <2>4. Accepted(c, repository[m].name, registry) /\ repository[m].name = m /\ c.name = m
    BY <1>6, <2>1, <2>2, <2>3 DEF Sound, Accepted, AssertArtifact
  <2>5. ASSUME NEW r \in c.requirements PROVE Traced(r, repository, registry)
    <3>1. FromLeaf(r, <<m>>, repository, registry)
      BY <1>6, <2>1, <2>3 DEF Sound
    <3>2. PICK l \in LocalAngels :
            /\ l = r.source \/ l = m
            /\ repository[l].name = r.source
            /\ r.tools = NamesOf(ToolsOf(repository[l], registry), r.provider)
      BY <2>2, <3>1 DEF FromLeaf
    <3>3. l = r.source
      BY <2>4, <3>2
    <3> QED
      BY <3>1, <3>2, <3>3 DEF FromLeaf, Traced
  <2> QED
    BY <2>4, <2>5
<1>13. compiled[path] # Failed
  BY <1>9, <1>11, <1>12, CompositeMade
<1>14. compiled[path].name = n
  <2>1. Sound(compiled[path], path, repository, registry)
    BY <1>1, <1>2, CompiledIsSound
  <2> QED
    BY <1>2, <1>13, <2>1 DEF Sound, Accepted, AssertArtifact
<1> QED
  BY <1>13, <1>14 DEF Build, compiled

-----------------------------------------------------------------------------
(* Every artifact that is built.                                           *)

(* What the client builds the hosted side of its release accepts.          *)
LEMMA BuiltIsSound ==
  ASSUME NEW repository, WellFormed(repository), NEW registry, Complete(registry),
         NEW n \in LocalAngels, Build(repository, registry, n) # Failed
  PROVE  /\ AssertArtifact(Build(repository, registry, n), n, registry)
         /\ \A r \in Build(repository, registry, n).requirements :
              r.tools \subseteq DOMAIN registry.scopes
<1> DEFINE compiled == CompileSource(repository, registry)
<1>1. <<n>> \in Paths
  BY DEF Paths
<1>2. Sound(compiled[<<n>>], <<n>>, repository, registry)
  BY <1>1, CompileSourceCompiles, CompiledIsSound
<1>3. /\ Build(repository, registry, n) = compiled[<<n>>]
      /\ compiled[<<n>>] # Failed /\ compiled[<<n>>].name = n
  BY DEF Build
<1> QED
  BY <1>2, <1>3 DEF Sound, Accepted, AssertArtifact, FromLeaf

(* The consent an accepted artifact asks for.                              *)
LEMMA BuiltConsent ==
  ASSUME NEW registry, Complete(registry), NEW artifact, NEW slug,
         AssertArtifact(artifact, slug, registry), NEW r \in artifact.requirements,
         r.tools \subseteq DOMAIN registry.scopes
  PROVE  Least(registry, r.tools, registry.ranking[r.provider], r.requiredScopes)
<1> DEFINE p == r.provider
<1>1. /\ r.tools # {} /\ r.requiredScopes # {}
      /\ r.requiredScopes = SelectRequiredScopes(registry, r.tools)
      /\ \A o \in r.tools : \E t \in artifact.tools : t.name = o /\ t.provider = p
  BY DEF AssertArtifact, ValidRequirements
<1>2. \A o \in r.tools : ProviderOf[o] = p
  BY <1>1 DEF AssertArtifact, ValidTools
<1>3. registry.ranking[p] \in Seq(ToSet(registry.ranking[p]))
  BY <1>1, <1>2 DEF Complete
<1> HIDE DEF p
<1>4. Least(registry, r.tools, registry.ranking[p], SelectRequiredScopes(registry, r.tools))
  BY <1>1, <1>2, <1>3, SelectedIsLeast
<1> QED
  BY <1>1, <1>4 DEF p

-----------------------------------------------------------------------------
(* Files and releases as they are.                                         *)
CompileInv ==
  /\ files \in [LocalAngels -> {Failed} \cup UNION {Sources[n] : n \in LocalAngels}]
  /\ \A n \in LocalAngels : files[n] = Failed \/ files[n] \in Sources[n]
  /\ release \in [{"client", "hosted"} -> DOMAIN Registries]

(* There is a first release.                                               *)
LEMMA RegistriesListed ==
  /\ Len(Registries) \in Nat /\ DOMAIN Registries = 1 .. Len(Registries)
  /\ 1 \in DOMAIN Registries
<1>1. Registries \in Seq(ToSet(Registries)) /\ Registries # <<>>
  BY CompileAssumption
<1>2. Len(Registries) \in Nat \ {0} /\ DOMAIN Registries = 1 .. Len(Registries)
  BY <1>1, EmptySeq, LenProperties
<1> QED
  BY <1>2

(* The files stay those that can be written, and the releases those there  *)
(* are.                                                                    *)
LEMMA CompileInvStep == CompileInv /\ [CompileNext]_compileVars => CompileInv'
<1> SUFFICES ASSUME CompileInv, [CompileNext]_compileVars PROVE CompileInv'
  OBVIOUS
<1>1. CASE UNCHANGED <<files, release>>
  BY <1>1 DEF CompileInv
<1>2. ASSUME NEW n \in LocalAngels, NEW source \in Sources[n], Edit(n, source)
      PROVE  CompileInv'
  <2>1. files' = [files EXCEPT ![n] = source] /\ release' = release
    BY <1>2 DEF Edit
  <2>2. source \in UNION {Sources[m] : m \in LocalAngels}
    BY <1>2
  <2>3. files' \in [LocalAngels -> {Failed} \cup UNION {Sources[m] : m \in LocalAngels}]
    BY <2>1, <2>2 DEF CompileInv
  <2>4. \A m \in LocalAngels : files'[m] = Failed \/ files'[m] \in Sources[m]
    BY <1>2, <2>1 DEF CompileInv
  <2> QED
    BY <2>1, <2>3, <2>4 DEF CompileInv
<1>3. ASSUME NEW side \in {"client", "hosted"}, Upgrade(side) PROVE CompileInv'
  <2>1. /\ release[side] < Len(Registries) /\ files' = files
        /\ release' = [release EXCEPT ![side] = release[side] + 1]
    BY <1>3 DEF Upgrade
  <2>2. release[side] + 1 \in DOMAIN Registries
    BY <2>1, RegistriesListed DEF CompileInv
  <2>3. release' \in [{"client", "hosted"} -> DOMAIN Registries]
    BY <2>1, <2>2 DEF CompileInv
  <2> QED
    BY <2>1, <2>3 DEF CompileInv
<1> QED
  BY <1>1, <1>2, <1>3 DEF CompileNext, PublishArtifact, DropVersions, compileVars

(* The files and releases of every reachable state.                        *)
LEMMA CompileInvariant == CompileSpec => []CompileInv
<1>1. CompileInit => CompileInv
  BY RegistriesListed DEF CompileInit, CompileInv
<1> QED
  BY <1>1, CompileInvStep, PTL DEF CompileSpec

(* What the lemmas about the compiler need of them.                        *)
LEMMA InvariantGives ==
  ASSUME CompileInv
  PROVE  /\ WellFormed(files)
         /\ \A side \in {"client", "hosted"} : Complete(Reviewed(side))
<1>1. WellFormed(files)
  BY CompileAssumption DEF CompileInv, WellFormed
<1>2. ASSUME NEW side \in {"client", "hosted"} PROVE Complete(Reviewed(side))
  <2>1. release[side] \in DOMAIN Registries
    BY DEF CompileInv
  <2>2. Reviewed(side) \in ToSet(Registries)
    BY <2>1 DEF Reviewed, ToSet
  <2> QED
    BY <2>2, CompileAssumption
<1> QED
  BY <1>1, <1>2

(* What a client of the hosted side's release builds the hosted side       *)
(* publishes, its consent is enough at the deploy floor, and Angels that   *)
(* build and share no tool compose: the compiler (domain.ts), the          *)
(* validator (artifact-validate.ts) and Management agree, whatever is      *)
(* composed from what and however deep.                                    *)
THEOREM BuildsAreAccepted == CompileSpec => []BuildIsAccepted
<1>1. ASSUME CompileInv, NEW n \in LocalAngels, Composable(n)
      PROVE  Build(files, Reviewed("client"), n) # Failed
  <2> DEFINE registry == Reviewed("client")
             angels == files[n].angels
             builds(m) == Build(files, registry, m)
  <2>1. WellFormed(files) /\ Complete(registry)
    BY <1>1, InvariantGives
  <2>2. /\ files[n] # Failed /\ files[n].name = n /\ files[n].tools = <<>>
        /\ angels # <<>> /\ IsInjective(angels)
    BY <1>1 DEF Composable
  <2>3. /\ \A i \in DOMAIN angels : builds(angels[i]) # Failed
        /\ \A i, j \in DOMAIN angels : i # j =>
             \A t \in builds(angels[i]).tools, u \in builds(angels[j]).tools :
               Folded[t.name] # Folded[u.name]
    BY <1>1 DEF Composable
  <2>4. \A m \in ToSet(angels) : \E i \in DOMAIN angels : m = angels[i]
    BY DEF ToSet
  <2> HIDE DEF registry, builds
  <2>5. \A m \in ToSet(angels) : builds(m) # Failed
    BY <2>3, <2>4
  <2>6. ASSUME NEW m \in ToSet(angels), NEW k \in ToSet(angels), m # k
        PROVE  \A t \in builds(m).tools, u \in builds(k).tools :
                 Folded[t.name] # Folded[u.name]
    <3>1. PICK i \in DOMAIN angels : m = angels[i]
      BY <2>4
    <3>2. PICK j \in DOMAIN angels : k = angels[j]
      BY <2>4
    <3> QED
      BY <2>3, <2>6, <3>1, <3>2
  <2>7. Build(files, registry, n) # Failed
    BY <2>1, <2>2, <2>5, <2>6, ComposedBuilds DEF builds
  <2> QED
    BY <2>7 DEF registry
<1>2. ASSUME CompileInv, NEW n \in LocalAngels, release["client"] = release["hosted"],
             Build(files, Reviewed("client"), n) # Failed
      PROVE  /\ AssertArtifact(Build(files, Reviewed("client"), n), n, Reviewed("hosted"))
             /\ \A r \in Build(files, Reviewed("client"), n).requirements :
                  BindingOperationGaps(Reviewed("hosted"), r.tools, r.requiredScopes)
                    = [unknown |-> {}, uncovered |-> {}]
  <2> DEFINE registry == Reviewed("client")
             artifact == Build(files, registry, n)
  <2>1. Reviewed("hosted") = registry
    BY <1>2 DEF Reviewed
  <2>2. WellFormed(files) /\ Complete(registry)
    BY <1>2, InvariantGives
  <2> HIDE DEF registry
  <2>3. /\ AssertArtifact(artifact, n, registry)
        /\ \A r \in artifact.requirements : r.tools \subseteq DOMAIN registry.scopes
    BY <1>2, <2>2, BuiltIsSound DEF registry
  <2> HIDE DEF artifact
  <2>4. ASSUME NEW r \in artifact.requirements
        PROVE  BindingOperationGaps(registry, r.tools, r.requiredScopes)
                 = [unknown |-> {}, uncovered |-> {}]
    <3>1. r.tools \subseteq DOMAIN registry.scopes
      BY <2>3
    <3>2. \A t \in r.tools : registry.scopes[t] \cap r.requiredScopes # {}
      BY <2>2, <2>3, <3>1, BuiltConsent DEF Least
    <3>3. /\ r.tools \ DOMAIN registry.scopes = {}
          /\ {t \in r.tools \cap DOMAIN registry.scopes :
                registry.scopes[t] \cap r.requiredScopes = {}} = {}
      BY <3>1, <3>2
    <3> QED
      BY <3>3 DEF BindingOperationGaps
  <2> QED
    BY <2>1, <2>3, <2>4 DEF artifact, registry
<1>3. CompileInv => BuildIsAccepted
  BY <1>1, <1>2 DEF BuildIsAccepted
<1> QED
  BY <1>3, CompileInvariant, PTL

(* No consent that covers the tools is narrower than the one that          *)
(* selectRequiredScopes (adapter-derive.ts) asks for: its exhaustive       *)
(* search ends with a cover, the order of the vectors is total on covers,  *)
(* and the first of them lacks the broadest scope in which it differs from *)
(* any other.                                                              *)
THEOREM ConsentIsLeast == CompileSpec => []LeastAuthority
<1>1. ASSUME CompileInv, NEW n \in LocalAngels, Build(files, Reviewed("client"), n) # Failed,
             NEW r \in Build(files, Reviewed("client"), n).requirements
      PROVE  Least(Reviewed("client"), r.tools, Reviewed("client").ranking[r.provider],
                   r.requiredScopes)
  <2> DEFINE registry == Reviewed("client")
             artifact == Build(files, registry, n)
  <2>1. WellFormed(files) /\ Complete(registry)
    BY <1>1, InvariantGives
  <2> HIDE DEF registry
  <2>2. /\ AssertArtifact(artifact, n, registry)
        /\ \A s \in artifact.requirements : s.tools \subseteq DOMAIN registry.scopes
    BY <1>1, <2>1, BuiltIsSound DEF registry
  <2>3. r \in artifact.requirements
    BY DEF registry
  <2> HIDE DEF artifact
  <2>4. Least(registry, r.tools, registry.ranking[r.provider], r.requiredScopes)
    BY <2>1, <2>2, <2>3, BuiltConsent
  <2> QED
    BY <2>4 DEF registry
<1>2. CompileInv => LeastAuthority
  BY <1>1 DEF LeastAuthority, Least
<1> QED
  BY <1>2, CompileInvariant, PTL

-----------------------------------------------------------------------------
(* Mutations: keys and records of the requests that were served.           *)
Inputs ==
  [op : {"ensure", "publish", "deploy", "pause", "resume", "create_key", "rotate_key", "delete"},
   angel : Nat, argument : Artifacts \cup Nat \cup {None}]

Senders == {"client", "caller", "dashboard"}
Names == KeyNames \cup KeyTokens \cup {None}

SentKeys == [by : Senders, name : Names, input : Inputs \cup {None}, generation : Nat]

MintedKeys ==
  [for : [by : Senders, name : Names, input : Inputs], key : SentKeys,
   status : {"active", "revoked"}]

AngelTypeOK ==
  /\ minted \in Nat /\ angel \in 0 .. minted
  /\ versions \in SUBSET Artifacts /\ deployments \in Seq(Artifacts)
  /\ active \in Nat /\ pending \in Nat
  /\ availability \in [enabled : BOOLEAN, revision : Nat]
  /\ pendingAvailability \in Changes \cup {None}
  /\ keys \in Seq(MintedKeys)

MutationsTypeOK ==
  /\ AngelTypeOK
  /\ records \in SUBSET [key : SentKeys, fingerprint : Inputs, angel : Nat]
  /\ answered \in {None} \cup [key : SentKeys, input : Inputs, to : Inputs, angel : Nat]
  /\ deletions \in SUBSET [key : SentKeys, angel : Nat]

(* The Idempotency-Key that a request for a key has: its sender has no     *)
(* other for it.                                                           *)
KeyFor(asked) ==
  IF asked.by = "caller" THEN ChosenKey(asked.name)
                         ELSE Key(asked.by, asked.name, asked.input, 0)

(* The requests that are sent.                                             *)
Sent(key, input) ==
  /\ key \in SentKeys /\ input \in Inputs
  /\ input.op \in {"ensure", "delete"} => input.angel = 0
  /\ input.op = "publish" => input.argument \in Artifacts
  /\ input.op \in {"ensure", "create_key", "rotate_key"} => key = KeyFor(Asked(key, input))
  /\ input.op \in Changes /\ key.by = "dashboard" =>
       key.generation = availability.revision /\ ~Already(input)

(* Every key was minted for a request whose record is kept, and for no     *)
(* other.                                                                  *)
MintedInv ==
  /\ \A k \in DOMAIN keys : keys[k].key = KeyFor(keys[k].for)
  /\ KeyHasItsAnswer
  /\ OneKeyPerRequest

(* Apart from the receipts of deletions, the records are about the Angel   *)
(* that holds the slug, and what the dashboard changed came after them.    *)
RecordsInv ==
  \A r \in records : ~IsDeleteReceipt(r) =>
    /\ angel # 0 /\ r.angel = angel /\ r.fingerprint.angel \in {0, angel}
    /\ r.key.by = "dashboard" /\ r.fingerprint.op \in Changes =>
         r.key.generation < availability.revision

(* A deletion leaves its receipt.                                          *)
DeletionsInv ==
  \A d \in deletions : \E r \in records : r.key = d.key /\ IsDeleteReceipt(r)

MutationsInv ==
  MutationsTypeOK /\ MintedInv /\ RecordsInv /\ DeletionsInv /\ RightIncarnation /\ ChangeHolds

LEMMA MutationsInitial == MutationsInit => MutationsInv
<1> SUFFICES ASSUME MutationsInit PROVE MutationsInv
  OBVIOUS
<1>1. MutationsTypeOK
  BY DEF MutationsInit, MutationsTypeOK, AngelTypeOK
<1>2. MintedInv
  BY DEF MutationsInit, MintedInv, KeyHasItsAnswer, OneKeyPerRequest
<1>3. RecordsInv /\ DeletionsInv
  BY DEF MutationsInit, RecordsInv, DeletionsInv
<1>4. RightIncarnation /\ ChangeHolds
  BY DEF MutationsInit, RightIncarnation, ChangeHolds
<1> QED
  BY <1>1, <1>2, <1>3, <1>4 DEF MutationsInv

(* The inputs.                                                             *)
LEMMA InputsType ==
  ASSUME AngelTypeOK
  PROVE  /\ AngelInputs \subseteq Inputs /\ EnvironmentInputs \subseteq Inputs
         /\ KeyInputs(angel) \subseteq Inputs
         /\ \A input \in AngelInputs : /\ input.op \in {"ensure", "delete", "publish"}
                                       /\ IF input.op = "publish"
                                          THEN input.argument \in Artifacts
                                          ELSE input.angel = 0
         /\ \A input \in EnvironmentInputs : input.op \in {"deploy", "pause", "resume"}
         /\ \A input \in KeyInputs(angel) : input.op \in {"create_key", "rotate_key"}
<1>1. Incarnations \subseteq Nat /\ DOMAIN keys \subseteq Nat /\ angel \in Nat
  BY DEF AngelTypeOK, Incarnations
<1>2. AngelInputs \subseteq Inputs /\ EnvironmentInputs \subseteq Inputs
  BY <1>1 DEF AngelInputs, EnvironmentInputs, Input, Inputs, Changes
<1>3. KeyInputs(angel) \subseteq Inputs
  BY <1>1 DEF KeyInputs, Input, Inputs
<1>4. \A input \in AngelInputs : /\ input.op \in {"ensure", "delete", "publish"}
                                 /\ IF input.op = "publish"
                                    THEN input.argument \in Artifacts
                                    ELSE input.angel = 0
  BY DEF AngelInputs, Input
<1>5. /\ \A input \in EnvironmentInputs : input.op \in {"deploy", "pause", "resume"}
      /\ \A input \in KeyInputs(angel) : input.op \in {"create_key", "rotate_key"}
  BY DEF EnvironmentInputs, KeyInputs, Input, Changes
<1> QED
  BY <1>2, <1>3, <1>4, <1>5

LEMMA MutationCases ==
  ASSUME AngelTypeOK, [MutationsNext]_mutationVars
  PROVE  \/ \E key, input : Sent(key, input) /\ Serve(key, input)
         \/ \E key \in SentKeys, input \in Inputs :
              /\ input.op \in Changes /\ Already(input) /\ angel # 0
              /\ answered' = [key |-> key, input |-> input, to |-> input, angel |-> angel]
              /\ UNCHANGED <<angelVars, records, deletions>>
         \/ Reset
         \/ UNCHANGED mutationVars
<1>1. CASE ClientRequest
  <2>1. PICK input \in AngelInputs \cup EnvironmentInputs :
          IF input.op = "delete"
          THEN Serve(FreshKey(input), input)
          ELSE input.op \notin Changes /\ Serve(DerivedKey(input), input)
    BY <1>1 DEF ClientRequest, Serve
  <2>2. /\ input \in Inputs /\ input.op \notin {"create_key", "rotate_key"}
        /\ input.op \in {"ensure", "delete"} => input.angel = 0
        /\ input.op = "publish" => input.argument \in Artifacts
    BY InputsType
  <2>3. FreshKey(input) \in SentKeys /\ DerivedKey(input) \in SentKeys
    BY <2>2 DEF FreshKey, DerivedKey, Key, SentKeys, Senders, Names, AngelTypeOK
  <2>4. DerivedKey(input) = KeyFor(Asked(DerivedKey(input), input))
    BY DEF DerivedKey, KeyFor, Asked, Key
  <2>5. CASE input.op = "delete"
    <3>1. Sent(FreshKey(input), input)
      BY <2>2, <2>3, <2>5 DEF Sent, Changes
    <3> QED
      BY <2>1, <2>5, <3>1
  <2>6. CASE input.op # "delete"
    <3>1. Sent(DerivedKey(input), input)
      BY <2>1, <2>2, <2>3, <2>4, <2>6 DEF Sent
    <3> QED
      BY <2>1, <2>6, <3>1
  <2> QED
    BY <2>5, <2>6
<1>2. CASE CallerRequest
  <2>1. PICK name \in KeyNames, input \in AngelInputs \cup EnvironmentInputs \cup KeyInputs(angel) :
          Serve(ChosenKey(name), input)
    BY <1>2 DEF CallerRequest
  <2>2. /\ input \in Inputs
        /\ input.op \in {"ensure", "delete"} => input.angel = 0
        /\ input.op = "publish" => input.argument \in Artifacts
    BY InputsType
  <2>3. ChosenKey(name) \in SentKeys /\ ChosenKey(name).by = "caller"
    BY DEF ChosenKey, Key, SentKeys, Senders, Names
  <2>4. ChosenKey(name) = KeyFor(Asked(ChosenKey(name), input))
    BY DEF ChosenKey, KeyFor, Asked, Key
  <2>5. Sent(ChosenKey(name), input)
    BY <2>2, <2>3, <2>4 DEF Sent
  <2> QED
    BY <2>1, <2>5
<1>3. CASE DashboardChange
  <2>1. PICK op \in Changes :
          LET input == Input(op, angel, None)
              key == DemoMutationKey(input, availability.revision)
          IN  /\ angel # 0
              /\ \/ /\ Already(input)
                    /\ answered' = [key |-> key, input |-> input, to |-> input, angel |-> angel]
                    /\ UNCHANGED <<angelVars, records, deletions>>
                 \/ ~Already(input) /\ Serve(key, input)
    BY <1>3 DEF DashboardChange
  <2> DEFINE input == Input(op, angel, None)
             key == DemoMutationKey(input, availability.revision)
  <2>2. input \in Inputs /\ input.op = op
    BY DEF Input, Inputs, Changes, AngelTypeOK
  <2> HIDE DEF input
  <2>3. key \in SentKeys /\ key.generation = availability.revision
    BY <2>2 DEF DemoMutationKey, Key, SentKeys, Senders, Names, AngelTypeOK
  <2> HIDE DEF key
  <2>4. ~Already(input) => Sent(key, input)
    BY <2>2, <2>3 DEF Sent, Changes
  <2> QED
    BY <2>1, <2>2, <2>3, <2>4 DEF input, key
<1>4. CASE DashboardKey
  <2>1. PICK token \in KeyTokens, input \in KeyInputs(angel) : Serve(KeyActionKey(token, input), input)
    BY <1>4 DEF DashboardKey
  <2>2. input \in Inputs /\ input.op \in {"create_key", "rotate_key"}
    BY InputsType
  <2>3. KeyActionKey(token, input) \in SentKeys
    BY <2>2 DEF KeyActionKey, Key, SentKeys, Senders, Names
  <2>4. KeyActionKey(token, input) = KeyFor(Asked(KeyActionKey(token, input), input))
    BY DEF KeyActionKey, KeyFor, Asked, Key
  <2>5. Sent(KeyActionKey(token, input), input)
    BY <2>2, <2>3, <2>4 DEF Sent, Changes
  <2> QED
    BY <2>1, <2>5
<1> QED
  BY <1>1, <1>2, <1>3, <1>4 DEF MutationsNext
-----------------------------------------------------------------------------
(* What a command does to the slug.                                        *)
LEMMA MintedType ==
  ASSUME NEW key, NEW input, Sent(key, input)
  PROVE  [for |-> Asked(key, input), key |-> key, status |-> "active"] \in MintedKeys
BY DEF Sent, Asked, MintedKeys, SentKeys

LEMMA FreshIs ==
  ASSUME Fresh
  PROVE  /\ versions' \in SUBSET Artifacts /\ deployments' \in Seq(Artifacts)
         /\ active' \in Nat /\ pending' \in Nat
         /\ availability' \in [enabled : BOOLEAN, revision : Nat]
         /\ pendingAvailability' \in Changes \cup {None}
BY DEF Fresh

(* The same keys, apart from what they are worth; or one more.             *)
SameKeys ==
  /\ DOMAIN keys' = DOMAIN keys
  /\ \A k \in DOMAIN keys : keys'[k].for = keys[k].for /\ keys'[k].key = keys[k].key

OneMore(key, input) ==
  \E n \in Nat :
    /\ n \notin DOMAIN keys /\ DOMAIN keys' = DOMAIN keys \cup {n}
    /\ \A k \in DOMAIN keys : keys'[k].for = keys[k].for /\ keys'[k].key = keys[k].key
    /\ keys'[n].for = Asked(key, input) /\ keys'[n].key = key

(* The slug's Angel stays, and so does what was changed about it.          *)
Stays ==
  /\ angel' = angel /\ minted' = minted
  /\ availability'.revision >= availability.revision

LEMMA NextDeploymentsType ==
  ASSUME AngelTypeOK, NEW input, Deployable(input)
  PROVE  NextDeployments(input.argument) \in Seq(Artifacts)
BY DEF AngelTypeOK, Deployable, NextDeployments

LEMMA DeployEffect ==
  ASSUME AngelTypeOK, NEW input, DeployVersion(input) \/ DeployPending(input)
  PROVE  AngelTypeOK' /\ Stays /\ keys' = keys /\ input.op = "deploy"
<1>1. Deployable(input) /\ deployments' = NextDeployments(input.argument)
  BY DEF DeployVersion, DeployPending
<1>2. deployments' \in Seq(Artifacts) /\ Len(deployments') \in Nat
  BY <1>1, NextDeploymentsType
<1>3. /\ active' \in Nat /\ pending' \in Nat
      /\ UNCHANGED <<angel, minted, versions, availability, pendingAvailability, keys>>
  BY <1>2 DEF DeployVersion, DeployPending, AngelTypeOK
<1> QED
  BY <1>1, <1>2, <1>3 DEF AngelTypeOK, Stays, Deployable

LEMMA ChangeEffect ==
  ASSUME AngelTypeOK, NEW input, ChangeAvailability(input) \/ ChangePending(input)
  PROVE  /\ AngelTypeOK' /\ Stays /\ keys' = keys /\ input.op \in Changes
         /\ ChangeAvailability(input) =>
              /\ availability'.revision = availability.revision + 1
              /\ availability'.enabled = (input.op = "resume")
<1>1. CASE ChangeAvailability(input)
  <2>1. /\ input.op \in Changes
        /\ availability' = [enabled |-> input.op = "resume",
                            revision |-> availability.revision + 1]
        /\ pendingAvailability' = None
        /\ UNCHANGED <<angel, minted, versions, deployments, active, pending, keys>>
    BY <1>1 DEF ChangeAvailability, Changeable
  <2>2. availability.revision \in Nat /\ (input.op = "resume") \in BOOLEAN
    BY DEF AngelTypeOK
  <2> QED
    BY <2>1, <2>2 DEF AngelTypeOK, Stays
<1>2. CASE ChangePending(input)
  <2>1. /\ input.op \in Changes /\ pendingAvailability' = input.op
        /\ UNCHANGED <<angel, minted, versions, deployments, active, pending, availability, keys>>
    BY <1>2 DEF ChangePending, Changeable
  <2>2. ~ChangeAvailability(input) \/ availability' = [enabled |-> input.op = "resume",
                                                       revision |-> availability.revision + 1]
    BY DEF ChangeAvailability
  <2>3. availability.revision \in Nat
    BY DEF AngelTypeOK
  <2> QED
    BY <2>1, <2>2, <2>3 DEF AngelTypeOK, Stays
<1> QED
  BY <1>1, <1>2

LEMMA KeyEffect ==
  ASSUME AngelTypeOK, NEW key, NEW input, Sent(key, input),
         CreateKey(key, input) \/ RotateKey(key, input)
  PROVE  /\ AngelTypeOK' /\ Stays /\ OneMore(key, input)
         /\ input.op \in {"create_key", "rotate_key"}
<1> DEFINE new == [for |-> Asked(key, input), key |-> key, status |-> "active"]
           rotated == [keys EXCEPT ![input.argument].status = "revoked"]
<1>1. new \in MintedKeys /\ new.for = Asked(key, input) /\ new.key = key
  BY MintedType
<1>2. /\ input.op \in {"create_key", "rotate_key"}
      /\ UNCHANGED <<angel, minted, Production>>
      /\ keys' = Append(keys, new) \/ (input.argument \in DOMAIN keys /\ keys' = Append(rotated, new))
  BY DEF CreateKey, RotateKey, MintKey
<1> HIDE DEF new
<1>3. keys \in Seq(MintedKeys)
  BY DEF AngelTypeOK
<1>4. ASSUME NEW list \in Seq(MintedKeys), DOMAIN list = DOMAIN keys,
             \A k \in DOMAIN keys : list[k].for = keys[k].for /\ list[k].key = keys[k].key
      PROVE  /\ Append(list, new) \in Seq(MintedKeys)
             /\ keys' = Append(list, new) => OneMore(key, input)
  <2> DEFINE longer == Append(list, new)
  <2>1. /\ longer \in Seq(MintedKeys) /\ DOMAIN longer = DOMAIN list \cup {Len(list) + 1}
        /\ Len(list) + 1 \in Nat /\ Len(list) + 1 \notin DOMAIN list
        /\ \A k \in DOMAIN list : longer[k] = list[k]
        /\ longer[Len(list) + 1] = new
    BY <1>1
  <2> HIDE DEF longer
  <2>2. keys' = longer => OneMore(key, input)
    BY <1>1, <1>4, <2>1 DEF OneMore
  <2> QED
    BY <2>1, <2>2 DEF longer
<1>5. ASSUME keys' = Append(keys, new)
      PROVE  keys' \in Seq(MintedKeys) /\ OneMore(key, input)
  BY <1>3, <1>4, <1>5
<1>6. ASSUME input.argument \in DOMAIN keys, keys' = Append(rotated, new)
      PROVE  keys' \in Seq(MintedKeys) /\ OneMore(key, input)
  <2>1. \A k \in DOMAIN keys : keys[k] \in MintedKeys
    BY <1>3
  <2>2. /\ [keys[input.argument] EXCEPT !.status = "revoked"] \in MintedKeys
        /\ [keys[input.argument] EXCEPT !.status = "revoked"].for = keys[input.argument].for
        /\ [keys[input.argument] EXCEPT !.status = "revoked"].key = keys[input.argument].key
    BY <1>6, <2>1 DEF MintedKeys
  <2>3. /\ rotated \in Seq(MintedKeys) /\ DOMAIN rotated = DOMAIN keys
        /\ rotated[input.argument] = [keys[input.argument] EXCEPT !.status = "revoked"]
        /\ \A k \in DOMAIN keys : k # input.argument => rotated[k] = keys[k]
    BY <1>3, <1>6, <2>2
  <2> HIDE DEF rotated
  <2>4. \A k \in DOMAIN keys : rotated[k].for = keys[k].for /\ rotated[k].key = keys[k].key
    BY <2>2, <2>3
  <2> QED
    BY <1>4, <1>6, <2>3, <2>4
<1>7. keys' \in Seq(MintedKeys) /\ OneMore(key, input)
  BY <1>2, <1>5, <1>6
<1>8. UNCHANGED <<angel, minted, versions, deployments, active, pending, availability,
                  pendingAvailability>>
  BY <1>2 DEF Production
<1> QED
  BY <1>2, <1>7, <1>8 DEF AngelTypeOK, Stays

LEMMA RevokeAllEffect ==
  ASSUME AngelTypeOK, NEW input, RevokeAll(input)
  PROVE  AngelTypeOK' /\ Stays /\ SameKeys
<1>1. \A k \in DOMAIN keys : keys[k] \in MintedKeys
  BY DEF AngelTypeOK
<1>2. \A k \in DOMAIN keys :
        /\ [keys[k] EXCEPT !.status = "revoked"] \in MintedKeys
        /\ [keys[k] EXCEPT !.status = "revoked"].for = keys[k].for
        /\ [keys[k] EXCEPT !.status = "revoked"].key = keys[k].key
  BY <1>1 DEF MintedKeys
<1>3. keys' = [k \in DOMAIN keys |-> [keys[k] EXCEPT !.status = "revoked"]]
  BY DEF RevokeAll
<1>4. DOMAIN keys = 1 .. Len(keys) /\ Len(keys) \in Nat
  BY DEF AngelTypeOK
<1>5. keys' \in Seq(MintedKeys)
  BY <1>2, <1>3, <1>4
<1>6. SameKeys
  BY <1>2, <1>3 DEF SameKeys
<1>7. UNCHANGED <<angel, minted, versions, deployments, active, pending, availability,
                  pendingAvailability>>
  BY DEF RevokeAll, Production
<1> QED
  BY <1>5, <1>6, <1>7 DEF AngelTypeOK, Stays

(* A command that stopped.                                                 *)
LEMMA LeftBehind ==
  ASSUME AngelTypeOK, NEW key, NEW input, LeaveBehind(key, input)
  PROVE  AngelTypeOK' /\ Stays /\ SameKeys
BY DeployEffect, ChangeEffect, RevokeAllEffect DEF LeaveBehind, SameKeys

(* A command that completes: it leaves the Angel, takes the slug for a new *)
(* one, or gives it up.                                                    *)
LEMMA Performed ==
  ASSUME AngelTypeOK, NEW key, NEW input, Sent(key, input), Addressed(input),
         Perform(key, input)
  PROVE  /\ AngelTypeOK'
         /\ \/ /\ input.op # "delete" /\ Stays /\ (SameKeys \/ OneMore(key, input))
               /\ angel # 0 /\ input.angel \in {0, angel}
               /\ SameKeys \/ input.op \in {"create_key", "rotate_key"}
               /\ input.op \in Changes =>
                    /\ availability'.revision = availability.revision + 1
                    /\ availability'.enabled = (input.op = "resume")
            \/ /\ input.op = "ensure" /\ angel = 0 /\ angel' # 0 /\ input.angel = 0
               /\ DOMAIN keys' = {1}
               /\ keys'[1].for = Asked(key, input) /\ keys'[1].key = key
            \/ input.op = "delete" /\ angel # 0 /\ angel' = 0 /\ keys' = <<>>
<1>1. CASE EnsureAngel(key, input) /\ angel # 0
  BY <1>1 DEF EnsureAngel, angelVars, AngelTypeOK, Stays, SameKeys, Sent, Changes
<1>2. CASE EnsureAngel(key, input) /\ angel = 0
  <2> DEFINE new == [for |-> Asked(key, input), key |-> key, status |-> "active"]
  <2>1. /\ input.op = "ensure" /\ angel' = minted + 1 /\ minted' = minted + 1
        /\ Fresh /\ keys' = Append(<<>>, new)
    BY <1>2 DEF EnsureAngel, MintKey
  <2>2. new \in MintedKeys /\ new.for = Asked(key, input) /\ new.key = key
    BY MintedType
  <2> HIDE DEF new
  <2>3. keys' \in Seq(MintedKeys) /\ DOMAIN keys' = {1} /\ keys'[1] = new
    BY <2>1, <2>2
  <2>4. input.angel = 0 /\ minted \in Nat
    BY <2>1 DEF Sent, AngelTypeOK
  <2> QED
    BY <1>2, <2>1, <2>2, <2>3, <2>4, FreshIs DEF AngelTypeOK
<1>3. CASE PublishVersion(input)
  <2>1. /\ input.op = "publish" /\ input.argument \in Artifacts \cup Nat \cup {None}
        /\ versions' = versions \cup {input.argument}
        /\ UNCHANGED <<angel, minted, deployments, active, pending, availability,
                       pendingAvailability, keys>>
    BY <1>3 DEF PublishVersion, Sent, Inputs
  <2>2. input.argument \in Artifacts
    BY <2>1 DEF Sent
  <2>3. AngelTypeOK' /\ Stays /\ SameKeys
    BY <2>1, <2>2 DEF AngelTypeOK, Stays, SameKeys
  <2> QED
    BY <2>1, <2>3 DEF Addressed, Changes
<1>4. CASE DeployVersion(input)
  BY <1>4, DeployEffect DEF SameKeys, Addressed, Changes
<1>5. CASE ChangeAvailability(input)
  BY <1>5, ChangeEffect DEF SameKeys, Addressed, Changes
<1>6. CASE CreateKey(key, input) \/ RotateKey(key, input)
  BY <1>6, KeyEffect DEF Addressed, Changes
<1>7. CASE DeleteAngel(input)
  <2>1. /\ input.op = "delete" /\ angel # 0 /\ angel' = 0 /\ Fresh
        /\ keys' = <<>> /\ minted' = minted
    BY <1>7 DEF DeleteAngel
  <2> QED
    BY <2>1, FreshIs DEF AngelTypeOK
<1> QED
  BY <1>1, <1>2, <1>3, <1>4, <1>5, <1>6, <1>7 DEF Perform
-----------------------------------------------------------------------------
(* What is served and what is answered.                                    *)
LEMMA MintedKept ==
  ASSUME MintedInv, SameKeys, records \subseteq records' PROVE MintedInv'
BY DEF MintedInv, SameKeys, KeyHasItsAnswer, OneKeyPerRequest

LEMMA MintedMore ==
  ASSUME MintedInv, NEW key, NEW input, OneMore(key, input), Unused(key),
         key = KeyFor(Asked(key, input)),
         records \subseteq records', \E r \in records' : r.key = key
  PROVE  MintedInv'
<1>1. PICK n \in Nat :
        /\ n \notin DOMAIN keys /\ DOMAIN keys' = DOMAIN keys \cup {n}
        /\ \A k \in DOMAIN keys : keys'[k].for = keys[k].for /\ keys'[k].key = keys[k].key
        /\ keys'[n].for = Asked(key, input) /\ keys'[n].key = key
  BY DEF OneMore
<1>2. \A k \in DOMAIN keys : keys[k].for # Asked(key, input)
  BY DEF MintedInv, KeyHasItsAnswer, Unused
<1>3. OneKeyPerRequest'
  BY <1>1, <1>2 DEF MintedInv, OneKeyPerRequest
<1>4. KeyHasItsAnswer'
  BY <1>1 DEF MintedInv, KeyHasItsAnswer
<1>5. \A k \in DOMAIN keys' : keys'[k].key = KeyFor(keys'[k].for)
  BY <1>1 DEF MintedInv
<1> QED
  BY <1>3, <1>4, <1>5 DEF MintedInv

LEMMA MutateStep ==
  ASSUME MutationsInv, NEW key, NEW input, Sent(key, input), Mutate(key, input)
  PROVE  MutationsInv'
<1> DEFINE about == IF input.op = "ensure" THEN angel' ELSE angel
           new == Record(key, input, about)
           kept == IF input.op = "delete" THEN records \ Purged(angel) ELSE records
           answer == [key |-> key, input |-> input, to |-> input, angel |-> about]
<1>1. /\ Addressed(input) /\ Unused(key) /\ Perform(key, input)
      /\ records' = kept \cup {new} /\ answered' = answer
      /\ deletions' = IF input.op = "delete"
                      THEN deletions \cup {[key |-> key, angel |-> angel]} ELSE deletions
  BY DEF Mutate
<1>2. AngelTypeOK /\ key \in SentKeys /\ input \in Inputs
  BY DEF MutationsInv, MutationsTypeOK, Sent
<1>3. /\ AngelTypeOK'
      /\ \/ /\ input.op # "delete" /\ Stays /\ (SameKeys \/ OneMore(key, input))
            /\ angel # 0 /\ input.angel \in {0, angel}
            /\ SameKeys \/ input.op \in {"create_key", "rotate_key"}
            /\ input.op \in Changes =>
                 /\ availability'.revision = availability.revision + 1
                 /\ availability'.enabled = (input.op = "resume")
         \/ /\ input.op = "ensure" /\ angel = 0 /\ angel' # 0 /\ input.angel = 0
            /\ DOMAIN keys' = {1}
            /\ keys'[1].for = Asked(key, input) /\ keys'[1].key = key
         \/ input.op = "delete" /\ angel # 0 /\ angel' = 0 /\ keys' = <<>>
  BY <1>1, <1>2, Performed
<1>4. about \in Nat /\ angel \in Nat
  BY <1>2, <1>3 DEF AngelTypeOK
<1>5. /\ new.key = key /\ new.fingerprint = input /\ new.angel = about
      /\ new \in [key : SentKeys, fingerprint : Inputs, angel : Nat]
      /\ answer \in [key : SentKeys, input : Inputs, to : Inputs, angel : Nat]
      /\ answer.key = key /\ answer.input = input /\ answer.to = input /\ answer.angel = about
  BY <1>2, <1>4 DEF Record
<1> HIDE DEF new, answer
<1>6. MutationsTypeOK'
  <2>1. kept \subseteq records
    OBVIOUS
  <2>2. [key |-> key, angel |-> angel] \in [key : SentKeys, angel : Nat]
    BY <1>2, <1>4
  <2> QED
    BY <1>1, <1>3, <1>5, <2>1, <2>2 DEF MutationsInv, MutationsTypeOK
<1>7. MintedInv'
  <2>1. new \in records' /\ (input.op # "delete" => records \subseteq records')
    BY <1>1
  <2>2. CASE SameKeys /\ input.op # "delete"
    BY <2>1, <2>2, MintedKept DEF MutationsInv
  <2>3. CASE OneMore(key, input) /\ input.op # "delete" /\ ~SameKeys
    <3>1. key = KeyFor(Asked(key, input))
      BY <1>3, <2>3 DEF Sent
    <3> QED
      BY <1>1, <1>5, <2>1, <2>3, <3>1, MintedMore DEF MutationsInv
  <2>4. CASE /\ input.op = "ensure" /\ DOMAIN keys' = {1}
             /\ keys'[1].for = Asked(key, input) /\ keys'[1].key = key
    <3>1. key = KeyFor(Asked(key, input))
      BY <2>4 DEF Sent
    <3> QED
      BY <1>5, <2>1, <2>4, <3>1 DEF MintedInv, KeyHasItsAnswer, OneKeyPerRequest
  <2>5. CASE keys' = <<>>
    BY <2>5 DEF MintedInv, KeyHasItsAnswer, OneKeyPerRequest
  <2> QED
    BY <1>3, <2>2, <2>3, <2>4, <2>5
<1>8. RecordsInv'
  <2>1. CASE input.op # "delete" /\ Stays /\ angel # 0
    <3>1. records' = records \cup {new} /\ about = angel /\ input.angel \in {0, angel}
      BY <1>1, <1>3, <2>1 DEF Stays
    <3>2. /\ availability.revision \in Nat /\ availability'.revision \in Nat
          /\ availability'.revision >= availability.revision
          /\ \A r \in records : r.key.generation \in Nat
      BY <1>2, <1>3, <2>1 DEF AngelTypeOK, Stays, MutationsInv, MutationsTypeOK, SentKeys
    <3>3. key.by = "dashboard" /\ input.op \in Changes =>
            key.generation < availability'.revision
      BY <1>2, <1>3, <2>1, <3>2 DEF Sent
    <3> QED
      BY <1>5, <2>1, <3>1, <3>2, <3>3 DEF RecordsInv, MutationsInv, IsDeleteReceipt, Stays
  <2>2. CASE input.op = "ensure" /\ angel = 0 /\ angel' # 0
    <3>1. records' = records \cup {new} /\ about = angel' /\ input.angel = 0
      BY <1>1, <1>3, <2>2 DEF Sent
    <3> QED
      BY <1>5, <2>2, <3>1 DEF RecordsInv, MutationsInv, IsDeleteReceipt, Changes
  <2>3. CASE input.op = "delete"
    <3>1. \A r \in records' : IsDeleteReceipt(r)
      BY <1>1, <1>5, <2>3 DEF RecordsInv, MutationsInv, IsDeleteReceipt, Purged
    <3> QED
      BY <3>1 DEF RecordsInv, IsDeleteReceipt
  <2> QED
    BY <1>3, <2>1, <2>2, <2>3
<1>9. /\ DeletionsInv'
      /\ \A d, e \in deletions' : d.key = e.key => d.angel = e.angel
  <2>1. \A r \in records : IsDeleteReceipt(r) => r \in records'
    BY <1>1 DEF Purged
  <2>2. \A d \in deletions : d.key # key
    BY <1>1 DEF MutationsInv, DeletionsInv, Unused
  <2>3. CASE input.op # "delete"
    BY <1>1, <2>1, <2>3 DEF MutationsInv, DeletionsInv, RightIncarnation, IsDeleteReceipt
  <2>4. CASE input.op = "delete"
    <3>1. IsDeleteReceipt(new) /\ new \in records'
      BY <1>1, <1>5, <2>4 DEF IsDeleteReceipt
    <3>2. DeletionsInv'
      BY <1>1, <1>5, <2>1, <2>4, <3>1 DEF MutationsInv, DeletionsInv, IsDeleteReceipt
    <3>3. \A d, e \in deletions' : d.key = e.key => d.angel = e.angel
      BY <1>1, <2>2, <2>4 DEF MutationsInv, RightIncarnation
    <3> QED
      BY <3>2, <3>3
  <2> QED
    BY <2>3, <2>4
<1>10. RightIncarnation'
  <2>1. input.op # "delete" => angel' # 0 /\ about = angel'
    BY <1>3 DEF Stays
  <2> HIDE DEF about
  <2> QED
    BY <1>1, <1>5, <1>9, <2>1 DEF RightIncarnation
<1>11. ChangeHolds'
  <2>1. input.op \in Changes => availability'.enabled = (input.op = "resume")
    BY <1>3 DEF Changes
  <2> QED
    BY <1>1, <1>5, <2>1 DEF ChangeHolds
<1> QED
  BY <1>6, <1>7, <1>8, <1>9, <1>10, <1>11 DEF MutationsInv

(* A recorded answer is about the Angel that holds the slug, and a change  *)
(* from the dashboard has none yet: its key names the revision it starts   *)
(* from, and what was recorded came before.                                *)
LEMMA ReplayStep ==
  ASSUME MutationsInv, NEW key, NEW input, Sent(key, input), Replay(key, input)
  PROVE  MutationsInv'
<1>1. PICK r \in records :
        /\ r.key = key /\ r.fingerprint = input
        /\ answered' = [key |-> key, input |-> input, to |-> r.fingerprint, angel |-> r.angel]
  BY DEF Replay, Replays
<1>2. UNCHANGED <<angelVars, records, deletions>>
  BY DEF Replay
<1>3. r \in [key : SentKeys, fingerprint : Inputs, angel : Nat]
  BY DEF MutationsInv, MutationsTypeOK
<1>4. MutationsTypeOK'
  BY <1>1, <1>2, <1>3 DEF MutationsInv, MutationsTypeOK, AngelTypeOK, angelVars
<1>5. MintedInv' /\ RecordsInv' /\ DeletionsInv'
  BY <1>2 DEF MutationsInv, MintedInv, KeyHasItsAnswer, OneKeyPerRequest, RecordsInv,
              DeletionsInv, angelVars
<1>6. RightIncarnation'
  <2>1. input.op # "delete" => angel # 0 /\ r.angel = angel
    BY <1>1 DEF MutationsInv, RecordsInv, IsDeleteReceipt
  <2> QED
    BY <1>1, <1>2, <2>1 DEF MutationsInv, RightIncarnation, angelVars
<1>7. ~(input.op \in Changes /\ key.by = "dashboard")
  <2>1. ASSUME input.op \in Changes, key.by = "dashboard" PROVE FALSE
    <3>1. key.generation < availability.revision
      BY <1>1, <2>1 DEF MutationsInv, RecordsInv, IsDeleteReceipt, Changes
    <3>2. key.generation = availability.revision /\ availability.revision \in Nat
      BY <2>1 DEF Sent, MutationsInv, MutationsTypeOK, AngelTypeOK
    <3> QED
      BY <3>1, <3>2
  <2> QED
    BY <2>1
<1>8. ChangeHolds'
  BY <1>1, <1>7 DEF ChangeHolds
<1> QED
  BY <1>4, <1>5, <1>6, <1>8 DEF MutationsInv

LEMMA CutShortStep ==
  ASSUME MutationsInv, NEW key, NEW input, CutShort(key, input)
  PROVE  MutationsInv'
<1>1. /\ AngelTypeOK' /\ Stays /\ SameKeys
      /\ answered' = None /\ UNCHANGED <<records, deletions>>
  BY LeftBehind DEF CutShort, MutationsInv, MutationsTypeOK
<1>2. MutationsTypeOK'
  BY <1>1 DEF MutationsInv, MutationsTypeOK
<1>3. MintedInv'
  BY <1>1, MintedKept DEF MutationsInv
<1>4. RecordsInv'
  <2>1. /\ availability.revision \in Nat /\ availability'.revision \in Nat
        /\ availability'.revision >= availability.revision
        /\ \A r \in records : r.key.generation \in Nat
    BY <1>1 DEF AngelTypeOK, Stays, MutationsInv, MutationsTypeOK, SentKeys
  <2> QED
    BY <1>1, <2>1 DEF MutationsInv, RecordsInv, Stays, IsDeleteReceipt
<1>5. DeletionsInv' /\ RightIncarnation' /\ ChangeHolds'
  BY <1>1 DEF MutationsInv, DeletionsInv, RightIncarnation, ChangeHolds, IsDeleteReceipt
<1> QED
  BY <1>2, <1>3, <1>4, <1>5 DEF MutationsInv

(* A pause or resume of the dashboard that finds its work done.            *)
LEMMA AlreadyStep ==
  ASSUME MutationsInv, NEW key \in SentKeys, NEW input \in Inputs,
         input.op \in Changes, Already(input), angel # 0,
         answered' = [key |-> key, input |-> input, to |-> input, angel |-> angel],
         UNCHANGED <<angelVars, records, deletions>>
  PROVE  MutationsInv'
<1>1. MutationsTypeOK'
  BY DEF MutationsInv, MutationsTypeOK, AngelTypeOK, angelVars
<1>2. MintedInv' /\ RecordsInv' /\ DeletionsInv'
  BY DEF MutationsInv, MintedInv, KeyHasItsAnswer, OneKeyPerRequest, RecordsInv,
         DeletionsInv, angelVars
<1>3. RightIncarnation' /\ ChangeHolds'
  BY DEF MutationsInv, RightIncarnation, ChangeHolds, Already, angelVars
<1> QED
  BY <1>1, <1>2, <1>3 DEF MutationsInv

LEMMA ResetStep ==
  ASSUME MutationsInv, Reset
  PROVE  MutationsInv'
<1>1. /\ angel' = 0 /\ minted' = minted /\ Fresh /\ keys' = <<>> /\ records' = {}
      /\ answered' = None /\ deletions' = {}
  BY DEF Reset
<1>2. MutationsTypeOK'
  BY <1>1, FreshIs DEF MutationsInv, MutationsTypeOK, AngelTypeOK
<1>3. MintedInv' /\ RecordsInv' /\ DeletionsInv'
  BY <1>1 DEF MintedInv, KeyHasItsAnswer, OneKeyPerRequest, RecordsInv, DeletionsInv
<1>4. RightIncarnation' /\ ChangeHolds'
  BY <1>1 DEF RightIncarnation, ChangeHolds
<1> QED
  BY <1>2, <1>3, <1>4 DEF MutationsInv

LEMMA MutationsStep == MutationsInv /\ [MutationsNext]_mutationVars => MutationsInv'
<1> SUFFICES ASSUME MutationsInv, [MutationsNext]_mutationVars PROVE MutationsInv'
  OBVIOUS
<1>1. ASSUME NEW key, NEW input, Sent(key, input), Serve(key, input) PROVE MutationsInv'
  BY <1>1, MutateStep, ReplayStep, CutShortStep DEF Serve
<1>2. CASE UNCHANGED mutationVars
  BY <1>2 DEF mutationVars, angelVars, MutationsInv, MutationsTypeOK, AngelTypeOK, MintedInv,
              KeyHasItsAnswer, OneKeyPerRequest, RecordsInv, DeletionsInv, RightIncarnation,
              ChangeHolds
<1>3. AngelTypeOK
  BY DEF MutationsInv, MutationsTypeOK
<1> QED
  BY <1>1, <1>2, <1>3, AlreadyStep, ResetStep, MutationCases

(* The record, the keys and the idempotency records of a slug are what     *)
(* they are declared to be; every key has a record, the records are about  *)
(* the Angel that holds the slug, and each deletion leaves its receipt.    *)
THEOREM MutationsInvariant == MutationsSpec => []MutationsInv
<1> QED
  BY MutationsInitial, MutationsStep, PTL DEF MutationsSpec

(* A request for a new key that is repeated, after whichever of its        *)
(* answers got lost, mints one key.                                        *)
THEOREM OneKeyIsMinted == MutationsSpec => []OneKeyPerRequest
<1>1. MutationsInv => OneKeyPerRequest
  BY DEF MutationsInv, MintedInv
<1> QED
  BY <1>1, MutationsInvariant, PTL

(* A key that exists can still be told to whoever asked for it: the put    *)
(* that stores it stores the response with its plaintext.                  *)
THEOREM KeysHaveTheirAnswers == MutationsSpec => []KeyHasItsAnswer
<1>1. MutationsInv => KeyHasItsAnswer
  BY DEF MutationsInv, MintedInv
<1> QED
  BY <1>1, MutationsInvariant, PTL

(* An answer is about the Angel that holds the slug now, unless it is a    *)
(* deletion's, and a deletion that is repeated, however late, destroys no  *)
(* Angel but the one it was first sent for.                                *)
THEOREM AnswersAreOfTheRightIncarnation == MutationsSpec => []RightIncarnation
<1>1. MutationsInv => RightIncarnation
  BY DEF MutationsInv
<1> QED
  BY <1>1, MutationsInvariant, PTL

(* A pause or resume from the dashboard that was answered is in force: no  *)
(* recorded answer to an earlier one is given instead of doing it.         *)
THEOREM AnsweredChangeHolds == MutationsSpec => []ChangeHolds
<1>1. MutationsInv => ChangeHolds
  BY DEF MutationsInv
<1> QED
  BY <1>1, MutationsInvariant, PTL

-----------------------------------------------------------------------------
(* The web client's page.                                                  *)
Views == [angels : SUBSET Angels, ready : [Angels -> Nat]]
Environments == {"preview", "production"}
Contexts == Angels \X Environments

Pages ==
  [demoState : Views \cup {Null}, activeAngelId : Angels \cup {Null},
   activeEnvironment : Environments, activeRoute : {"home", "angel", "connections"},
   activePane : {"permissions", "keys", "activity", "settings"},
   keyReveal : [secret : Nat, context : Contexts] \cup {Null}, keysBusy : BOOLEAN]

Doms ==
  [secret : Nat, keysEnabled : BOOLEAN, offered : Nat, enabled : BOOLEAN,
   busy : BOOLEAN, blocked : BOOLEAN]

KeyTasks ==
  [stage : {"sent", "committed", "refreshing"}, attempt : {0, 1}, context : Contexts,
   mints : BOOLEAN, secret : Nat, view : Views \cup {Null}]

Tasks ==
  [key : KeyTasks \cup {Null},
   action : [kind : {"promote", "availability"}, angel : Angels \cup {Null},
             view : Views \cup {Null}, staged : Nat] \cup {Null},
   load : [by : {"start", "retry"}, view : Views \cup {Null}] \cup {Null}]

Clouds ==
  [angels : SUBSET Angels, staged : [Angels -> Nat], changes : Nat, secrets : Seq(Contexts)]

DashboardTypeOK == cloud \in Clouds /\ page \in Pages /\ dom \in Doms /\ tasks \in Tasks

(* The reveal that is held, and the one that is painted while the view has *)
(* the open Angel, were minted in the contexts they are for.               *)
RevealOK(p, secrets) ==
  p.keyReveal # Null =>
    p.keyReveal.secret \in DOMAIN secrets /\ secrets[p.keyReveal.secret] = p.keyReveal.context

ShownOK(p, d, secrets) ==
  Selected(p) /\ d.secret # 0 => d.secret \in DOMAIN secrets /\ secrets[d.secret] = Context(p)

(* What a key mutation has minted so far.                                  *)
KeyTaskOK(task, secrets) ==
  task # Null =>
    /\ task.secret # 0 => task.secret \in DOMAIN secrets /\ secrets[task.secret] = task.context
    /\ task.stage = "committed" /\ task.mints => task.secret # 0

(* The controls are locked by what is under way, and an action leaves no   *)
(* room for a load.                                                        *)
Locked(p, d, running) ==
  /\ running.key # Null => p.keysBusy /\ ~d.keysEnabled
  /\ running.action # Null \/ running.load # Null => d.busy /\ ~d.enabled
  /\ running.action # Null => running.load = Null /\ ~d.blocked

DashboardInv ==
  /\ DashboardTypeOK
  /\ RevealOK(page, cloud.secrets) /\ ShownOK(page, dom, cloud.secrets)
  /\ KeyTaskOK(tasks.key, cloud.secrets)
  /\ Locked(page, dom, tasks)

(* The views that are served.                                              *)
LEMMA ViewType ==
  ASSUME NEW c \in Clouds PROVE ViewNow(c) \in Views
BY DEF Clouds, ViewNow, Views

(* What painting does to the page and to what is painted.                  *)
Painted(p, d, q, e) ==
  /\ q \in Pages /\ e \in Doms
  /\ q.keysBusy = p.keysBusy /\ e.busy = d.busy /\ e.blocked = d.blocked
  /\ p.keysBusy /\ (~d.keysEnabled \/ Selected(p)) => ~e.keysEnabled
  /\ d.busy /\ ~d.enabled => ~e.enabled
  /\ \A secrets : RevealOK(p, secrets) => RevealOK(q, secrets) /\ ShownOK(q, e, secrets)

LEMMA KeysPainted ==
  ASSUME NEW p \in Pages, NEW d \in Doms
  PROVE  LET shown == RenderKeys(p, d) IN
           /\ Painted(p, d, shown.page, shown.dom)
           /\ shown = [page |-> shown.page, dom |-> shown.dom]
           /\ shown.page \in {p, [p EXCEPT !.keyReveal = Null]}
<1>1. CASE ~Selected(p)
  <2>1. RenderKeys(p, d) = [page |-> p, dom |-> d]
    BY <1>1 DEF RenderKeys
  <2> QED
    BY <1>1, <2>1 DEF Painted, RevealOK, ShownOK
<1>2. CASE Selected(p)
  <2> DEFINE q == Consumed(p)
             secret == IF Reveals(p) THEN p.keyReveal.secret ELSE 0
             e == [d EXCEPT !.secret = secret, !.keysEnabled = ~p.keysBusy]
  <2>1. RenderKeys(p, d) = [page |-> q, dom |-> e]
    BY <1>2 DEF RenderKeys
  <2>2. q \in {p, [p EXCEPT !.keyReveal = Null]}
    BY DEF Consumed
  <2>3. /\ q \in Pages /\ q.keysBusy = p.keysBusy /\ Context(q) = Context(p)
        /\ q.keyReveal \in {p.keyReveal, Null}
    BY <2>2 DEF Pages, Context
  <2> HIDE DEF q
  <2>4. secret \in Nat
    BY DEF Reveals, Pages
  <2>5. \A secrets : RevealOK(p, secrets) /\ secret # 0 =>
          secret \in DOMAIN secrets /\ secrets[secret] = Context(p)
    BY DEF RevealOK, Reveals
  <2> HIDE DEF secret
  <2>6. /\ e \in Doms /\ e.secret = secret /\ e.keysEnabled = ~p.keysBusy
        /\ e.enabled = d.enabled /\ e.busy = d.busy /\ e.blocked = d.blocked
    BY <2>4 DEF Doms, Pages
  <2> HIDE DEF e
  <2>7. \A secrets : RevealOK(p, secrets) => RevealOK(q, secrets) /\ ShownOK(q, e, secrets)
    BY <2>3, <2>5, <2>6 DEF RevealOK, ShownOK
  <2>8. Painted(p, d, q, e)
    BY <2>3, <2>6, <2>7 DEF Painted
  <2> QED
    BY <2>1, <2>2, <2>8
<1> QED
  BY <1>1, <1>2

LEMMA PanesPainted ==
  ASSUME NEW p \in Pages, NEW d \in Doms, Selected(p)
  PROVE  LET shown == RenderPanes(p, d) IN
           /\ Painted(p, d, shown.page, shown.dom)
           /\ shown = [page |-> shown.page, dom |-> shown.dom]
           /\ shown.page \in {p, [p EXCEPT !.keyReveal = Null]}
<1> DEFINE first == RenderKeys(p, d)
           q == first.page
           e == first.dom
           offered == IF q.activeEnvironment = "production"
                      THEN q.demoState.ready[q.activeAngelId] ELSE 0
           card == [e EXCEPT !.offered = offered]
           painted == [card EXCEPT !.enabled = ~card.busy]
<1>1. /\ Painted(p, d, q, e) /\ first = [page |-> q, dom |-> e]
      /\ q \in {p, [p EXCEPT !.keyReveal = Null]}
  BY KeysPainted
<1>2. RenderPanes(p, d) = [page |-> q, dom |-> painted]
  <2>1. RenderPanes(p, d) = [first EXCEPT !.dom = painted]
    BY DEF RenderPanes, SetActionControls, RenderDecisionCard
  <2> HIDE DEF painted, q, e
  <2> QED
    BY <1>1, <2>1
<1> HIDE DEF first
<1>3. q \in Pages /\ q.demoState = p.demoState /\ q.activeAngelId = p.activeAngelId
  BY <1>1 DEF Pages
<1>4. offered \in Nat
  <2>1. p.demoState \in Views /\ p.activeAngelId \in Angels
    BY DEF Selected, Pages, Views
  <2> QED
    BY <1>3, <2>1 DEF Views
<1> HIDE DEF offered
<1>5. e \in Doms
  BY <1>1 DEF Painted
<1>6. /\ painted \in Doms /\ painted.secret = e.secret /\ painted.keysEnabled = e.keysEnabled
      /\ painted.enabled = ~e.busy /\ painted.busy = e.busy /\ painted.blocked = e.blocked
  BY <1>4, <1>5 DEF Doms
<1> HIDE DEF painted, q, e
<1>7. Painted(p, d, q, painted)
  BY <1>1, <1>6 DEF Painted, ShownOK
<1> QED
  BY <1>1, <1>2, <1>7

LEMMA AllPainted ==
  ASSUME NEW p \in Pages, NEW d \in Doms, p.demoState \in Views, p.demoState # Null
  PROVE  LET shown == Render(p, d) IN
           /\ Painted(p, d, shown.page, shown.dom)
           /\ shown = [page |-> shown.page, dom |-> shown.dom]
<1>1. CASE p.demoState.angels = {}
  <2> DEFINE q == [p EXCEPT !.activeRoute = "home"]
             e == [d EXCEPT !.enabled = ~d.busy]
  <2>1. Render(p, d) = [page |-> q, dom |-> e]
    BY <1>1 DEF Render, SetActionControls
  <2>2. /\ q \in Pages /\ q.keysBusy = p.keysBusy /\ q.keyReveal = p.keyReveal
        /\ q.demoState = p.demoState
    BY DEF Pages
  <2>3. /\ e \in Doms /\ e.keysEnabled = d.keysEnabled /\ e.enabled = ~d.busy
        /\ e.busy = d.busy /\ e.blocked = d.blocked
    BY DEF Doms
  <2>4. ~Selected(p) /\ ~Selected(q)
    BY <1>1, <2>2 DEF Selected
  <2> HIDE DEF q, e
  <2>5. Painted(p, d, q, e)
    BY <2>2, <2>3, <2>4 DEF Painted, RevealOK, ShownOK
  <2> QED
    BY <2>1, <2>5
<1>2. CASE Selected(p)
  <2>1. Render(p, d) = RenderPanes(p, d)
    BY <1>2 DEF Render, Selected
  <2> QED
    BY <1>2, <2>1, PanesPainted
<1>3. CASE p.demoState.angels # {} /\ ~Selected(p)
  <2> DEFINE first == CHOOSE a \in p.demoState.angels : TRUE
             q == [p EXCEPT !.activeAngelId = first]
  <2>1. first \in p.demoState.angels /\ p.demoState.angels \subseteq Angels
    BY <1>3 DEF Views
  <2>2. Render(p, d) = RenderPanes(q, d)
    BY <1>3 DEF Render
  <2> HIDE DEF first
  <2>3. /\ q \in Pages /\ q.keysBusy = p.keysBusy /\ q.keyReveal = p.keyReveal
        /\ q.demoState = p.demoState /\ q.activeAngelId = first
    BY <2>1 DEF Pages
  <2> HIDE DEF q
  <2>4. Selected(q)
    BY <2>1, <2>3 DEF Selected
  <2> DEFINE shown == RenderPanes(q, d)
  <2>5. /\ Painted(q, d, shown.page, shown.dom)
        /\ shown = [page |-> shown.page, dom |-> shown.dom]
    BY <2>3, <2>4, PanesPainted
  <2> HIDE DEF shown
  <2>6. \A secrets : RevealOK(p, secrets) <=> RevealOK(q, secrets)
    BY <2>3 DEF RevealOK
  <2>7. Painted(p, d, shown.page, shown.dom)
    BY <1>3, <2>3, <2>4, <2>5, <2>6 DEF Painted
  <2> QED
    BY <2>2, <2>5, <2>7 DEF shown
<1> QED
  BY <1>1, <1>2, <1>3

(* What may be painted while the tasks are under way.                      *)
Paintable(p, d, running) ==
  /\ running.key # Null => p.keysBusy /\ (~d.keysEnabled \/ Selected(p))
  /\ running.action # Null \/ running.load # Null => d.busy /\ ~d.enabled
  /\ running.action # Null => running.load = Null /\ ~d.blocked

LEMMA PaintStep ==
  ASSUME DashboardInv, NEW p \in Pages, NEW d \in Doms, Painted(p, d, page', dom'),
         RevealOK(p, cloud.secrets), tasks' \in Tasks, Paintable(p, d, tasks'),
         KeyTaskOK(tasks'.key, cloud.secrets), cloud' = cloud
  PROVE  DashboardInv'
<1>1. DashboardTypeOK'
  BY DEF DashboardInv, DashboardTypeOK, Painted
<1>2. RevealOK(page', cloud'.secrets) /\ ShownOK(page', dom', cloud'.secrets)
  BY DEF Painted
<1>3. Locked(page', dom', tasks')
  BY DEF Locked, Paintable, Painted
<1> QED
  BY <1>1, <1>2, <1>3 DEF DashboardInv

(* A handler that repaints neither the keys nor the panes.                 *)
LEMMA PlainStep ==
  ASSUME DashboardInv, page' \in Pages, dom' \in Doms, tasks' \in Tasks, cloud' = cloud,
         page'.demoState = page.demoState, page'.activeAngelId = page.activeAngelId,
         page'.activeEnvironment = page.activeEnvironment \/ ~Selected(page),
         page'.keyReveal = page.keyReveal, page'.keysBusy = page.keysBusy,
         dom'.secret = dom.secret, dom'.keysEnabled = dom.keysEnabled,
         tasks'.key = tasks.key, Locked(page', dom', tasks')
  PROVE  DashboardInv'
<1>1. DashboardTypeOK'
  BY DEF DashboardInv, DashboardTypeOK
<1>2. RevealOK(page', cloud'.secrets) /\ KeyTaskOK(tasks'.key, cloud'.secrets)
  BY DEF DashboardInv, RevealOK
<1>3. ShownOK(page', dom', cloud'.secrets)
  BY DEF DashboardInv, ShownOK, Selected, Context
<1> QED
  BY <1>1, <1>2, <1>3 DEF DashboardInv

LEMMA DashboardInitial == DashboardInit => DashboardInv
<1> SUFFICES ASSUME DashboardInit PROVE DashboardInv
  OBVIOUS
<1>1. cloud \in Clouds /\ page \in Pages /\ dom \in Doms /\ tasks \in Tasks
  BY DEF DashboardInit, Clouds, Pages, Doms, Tasks, Environments
<1>2. page.keyReveal = Null /\ dom.secret = 0 /\ tasks.key = Null /\ tasks.action = Null
  BY DEF DashboardInit
<1>3. Locked(page, dom, tasks)
  BY DEF DashboardInit, Locked
<1> QED
  BY <1>1, <1>2, <1>3 DEF DashboardInv, DashboardTypeOK, RevealOK, ShownOK, KeyTaskOK

LEMMA ServeLoadStep == ASSUME DashboardInv, ServeLoad PROVE DashboardInv'
<1>1. tasks' \in Tasks /\ tasks'.key = tasks.key /\ tasks'.action = tasks.action
  BY ViewType DEF ServeLoad, DashboardInv, DashboardTypeOK, Tasks
<1>2. Locked(page', dom', tasks')
  BY <1>1 DEF ServeLoad, DashboardInv, Locked
<1> QED
  BY <1>1, <1>2, PlainStep DEF ServeLoad, DashboardInv, DashboardTypeOK

LEMMA LoadedStep == ASSUME DashboardInv, Loaded PROVE DashboardInv'
<1> DEFINE p == [page EXCEPT !.demoState = tasks.load.view]
           d == [dom EXCEPT !.busy = FALSE]
           shown == Render(p, d)
<1>1. tasks.load.view \in Views /\ tasks.load.view # Null
  BY DEF Loaded, DashboardInv, DashboardTypeOK, Tasks
<1>2. /\ tasks' \in Tasks /\ tasks'.key = tasks.key /\ tasks'.action = Null
      /\ tasks'.load = Null
  BY DEF Loaded, DashboardInv, DashboardTypeOK, Tasks, Locked
<1>3. /\ p \in Pages /\ p.demoState = tasks.load.view /\ p.keysBusy = page.keysBusy
      /\ p.keyReveal = page.keyReveal
  BY <1>1 DEF DashboardInv, DashboardTypeOK, Pages
<1>4. d \in Doms /\ d.keysEnabled = dom.keysEnabled
  BY DEF DashboardInv, DashboardTypeOK, Doms
<1>5. page' = shown.page /\ dom' = shown.dom /\ cloud' = cloud
  BY DEF Loaded, Paint
<1> HIDE DEF p, d
<1>6. Painted(p, d, page', dom')
  BY <1>1, <1>3, <1>4, <1>5, AllPainted
<1>7. RevealOK(p, cloud.secrets) /\ KeyTaskOK(tasks'.key, cloud.secrets)
  BY <1>2, <1>3 DEF DashboardInv, RevealOK
<1>8. Paintable(p, d, tasks')
  BY <1>2, <1>3, <1>4 DEF DashboardInv, Locked, Paintable
<1> QED
  BY <1>2, <1>3, <1>4, <1>5, <1>6, <1>7, <1>8, PaintStep

LEMMA LoadFailsStep == ASSUME DashboardInv, LoadFails PROVE DashboardInv'
<1>1. /\ tasks' \in Tasks /\ tasks'.key = tasks.key /\ tasks'.action = Null
      /\ tasks'.load = Null
  BY DEF LoadFails, DashboardInv, DashboardTypeOK, Tasks, Locked
<1>2. /\ dom' \in Doms /\ dom'.secret = dom.secret /\ dom'.keysEnabled = dom.keysEnabled
  BY DEF LoadFails, Paint, SetBusy, SetActionControls, DashboardInv, DashboardTypeOK, Doms
<1>3. page' = page /\ cloud' = cloud
  BY DEF LoadFails, Paint
<1>4. Locked(page', dom', tasks')
  BY <1>1, <1>2, <1>3 DEF DashboardInv, Locked
<1> QED
  BY <1>1, <1>2, <1>3, <1>4, PlainStep DEF DashboardInv, DashboardTypeOK

LEMMA ClickRetryStep == ASSUME DashboardInv, ClickRetry PROVE DashboardInv'
<1>1. tasks' \in Tasks /\ tasks'.key = tasks.key /\ tasks'.action = Null
  BY DEF ClickRetry, DashboardInv, DashboardTypeOK, Tasks, Locked
<1>2. /\ dom' \in Doms /\ dom'.secret = dom.secret /\ dom'.keysEnabled = dom.keysEnabled
      /\ dom'.busy /\ ~dom'.enabled
  BY DEF ClickRetry, Paint, SetBusy, SetActionControls, DashboardInv, DashboardTypeOK, Doms
<1>3. page' = page /\ cloud' = cloud
  BY DEF ClickRetry, Paint
<1>4. Locked(page', dom', tasks')
  BY <1>1, <1>2, <1>3 DEF DashboardInv, Locked
<1> QED
  BY <1>1, <1>2, <1>3, <1>4, PlainStep DEF DashboardInv, DashboardTypeOK

LEMMA ClickAngelStep ==
  ASSUME DashboardInv, NEW a \in Angels, ClickAngel(a)
  PROVE  DashboardInv'
<1> DEFINE p == [page EXCEPT !.activeAngelId = a]
           shown == Render(p, dom)
<1>1. /\ p \in Pages /\ p.demoState = page.demoState /\ p.keysBusy = page.keysBusy
      /\ p.keyReveal = page.keyReveal
  BY DEF DashboardInv, DashboardTypeOK, Pages
<1>2. p.demoState \in Views /\ p.demoState # Null /\ dom \in Doms
  BY <1>1 DEF ClickAngel, Usable, DashboardInv, DashboardTypeOK, Pages
<1>3. page' = [shown.page EXCEPT !.activeRoute = "angel"] /\ dom' = shown.dom
  <2>1. /\ page' = [shown EXCEPT !.page.activeRoute = "angel"].page
        /\ dom' = [shown EXCEPT !.page.activeRoute = "angel"].dom
    BY DEF ClickAngel, Paint
  <2>2. shown = [page |-> shown.page, dom |-> shown.dom]
    BY <1>1, <1>2, AllPainted
  <2> HIDE DEF shown
  <2> QED
    BY <2>1, <2>2
<1> HIDE DEF p
<1>4. Painted(p, dom, shown.page, shown.dom)
  BY <1>1, <1>2, AllPainted
<1> HIDE DEF shown
<1>5. /\ page' \in Pages /\ page'.demoState = shown.page.demoState
      /\ page'.activeAngelId = shown.page.activeAngelId
      /\ page'.activeEnvironment = shown.page.activeEnvironment
      /\ page'.keyReveal = shown.page.keyReveal /\ page'.keysBusy = shown.page.keysBusy
  BY <1>3, <1>4 DEF Painted, Pages
<1>6. Painted(p, dom, page', dom')
  BY <1>3, <1>4, <1>5 DEF Painted, RevealOK, ShownOK, Selected, Context
<1>7. Paintable(p, dom, tasks)
  BY <1>1 DEF DashboardInv, Locked, Paintable
<1>8. RevealOK(p, cloud.secrets)
  BY <1>1 DEF DashboardInv, RevealOK
<1>9. tasks' = tasks /\ cloud' = cloud
  BY DEF ClickAngel
<1> QED
  BY <1>1, <1>2, <1>6, <1>7, <1>8, <1>9, PaintStep DEF DashboardInv, DashboardTypeOK

LEMMA NavigateStep ==
  ASSUME DashboardInv, NEW route \in Routes, Navigate(route)
  PROVE  DashboardInv'
<1>1. route \in {"home", "angel", "connections"}
  BY DashboardAssumption
<1>2. /\ page' = [page EXCEPT !.activeRoute = route] /\ dom' = dom
      /\ cloud' = cloud /\ tasks' = tasks
  BY DEF Navigate, Paint
<1>3. /\ page' \in Pages /\ page'.demoState = page.demoState
      /\ page'.activeAngelId = page.activeAngelId
      /\ page'.activeEnvironment = page.activeEnvironment
      /\ page'.keyReveal = page.keyReveal /\ page'.keysBusy = page.keysBusy
  BY <1>1, <1>2 DEF DashboardInv, DashboardTypeOK, Pages
<1>4. Locked(page', dom', tasks')
  BY <1>2, <1>3 DEF DashboardInv, Locked
<1> QED
  BY <1>2, <1>3, <1>4, PlainStep DEF DashboardInv, DashboardTypeOK

(* The handlers that repaint the keys.                                     *)
LEMMA KeysStep ==
  ASSUME DashboardInv, NEW p \in Pages, p.keyReveal = page.keyReveal,
         Paint(RenderKeys(p, dom)), tasks' \in Tasks, Paintable(p, dom, tasks'),
         KeyTaskOK(tasks'.key, cloud.secrets), cloud' = cloud
  PROVE  DashboardInv'
<1>1. dom \in Doms /\ RevealOK(p, cloud.secrets)
  BY DEF DashboardInv, DashboardTypeOK, RevealOK
<1>2. Painted(p, dom, page', dom')
  BY <1>1, KeysPainted DEF Paint
<1> QED
  BY <1>1, <1>2, PaintStep

LEMMA ClickPaneStep ==
  ASSUME DashboardInv, NEW pane \in Panes, ClickPane(pane)
  PROVE  DashboardInv'
<1> DEFINE p == [page EXCEPT !.activePane = pane]
<1>1. pane \in {"permissions", "keys", "activity", "settings"}
  BY DashboardAssumption
<1>2. p \in Pages /\ p.keyReveal = page.keyReveal /\ p.keysBusy = page.keysBusy
  BY <1>1 DEF DashboardInv, DashboardTypeOK, Pages
<1>3. Paint(RenderKeys(p, dom)) /\ cloud' = cloud /\ tasks' = tasks
  BY DEF ClickPane
<1> HIDE DEF p
<1>4. Paintable(p, dom, tasks')
  BY <1>2, <1>3 DEF DashboardInv, Locked, Paintable
<1> QED
  BY <1>2, <1>3, <1>4, KeysStep DEF DashboardInv, DashboardTypeOK

LEMMA ClickEnvironmentStep ==
  ASSUME DashboardInv, NEW e \in Environments, ClickEnvironment(e)
  PROVE  DashboardInv'
<1> DEFINE p == [page EXCEPT !.activeEnvironment = e]
<1>1. /\ p \in Pages /\ p.keyReveal = page.keyReveal /\ p.keysBusy = page.keysBusy
      /\ p.demoState = page.demoState /\ p.activeAngelId = page.activeAngelId
  BY DEF DashboardInv, DashboardTypeOK, Pages
<1>2. cloud' = cloud /\ tasks' = tasks
  BY DEF ClickEnvironment
<1>3. Paint(IF Selected(p) THEN RenderPanes(p, dom) ELSE [page |-> p, dom |-> dom])
  BY DEF ClickEnvironment
<1> HIDE DEF p
<1>4. CASE Selected(p)
  <2>1. dom \in Doms /\ RevealOK(p, cloud.secrets)
    BY <1>1 DEF DashboardInv, DashboardTypeOK, RevealOK
  <2>2. Painted(p, dom, page', dom')
    BY <1>1, <1>3, <1>4, <2>1, PanesPainted DEF Paint
  <2>3. Paintable(p, dom, tasks')
    BY <1>1, <1>2 DEF DashboardInv, Locked, Paintable
  <2> QED
    BY <1>1, <1>2, <2>1, <2>2, <2>3, PaintStep DEF DashboardInv, DashboardTypeOK
<1>5. CASE ~Selected(p)
  <2>1. page' = p /\ dom' = dom /\ ~Selected(page)
    BY <1>1, <1>3, <1>5 DEF Paint, Selected
  <2>2. Locked(page', dom', tasks')
    BY <1>1, <1>2, <2>1 DEF DashboardInv, Locked
  <2> QED
    BY <1>1, <1>2, <2>1, <2>2, PlainStep DEF DashboardInv, DashboardTypeOK
<1> QED
  BY <1>4, <1>5

LEMMA ToggleKeyFormStep == ASSUME DashboardInv, ToggleKeyForm PROVE DashboardInv'
<1>1. /\ Paint(RenderKeys(page, dom)) /\ cloud' = cloud /\ tasks' = tasks
      /\ page \in Pages
  BY DEF ToggleKeyForm, DashboardInv, DashboardTypeOK
<1>2. Paintable(page, dom, tasks')
  BY <1>1 DEF DashboardInv, Locked, Paintable
<1> QED
  BY <1>1, <1>2, KeysStep DEF DashboardInv, DashboardTypeOK

LEMMA ClickKeyStep ==
  ASSUME DashboardInv, NEW mints \in BOOLEAN, ClickKey(mints)
  PROVE  DashboardInv'
<1> DEFINE p == [page EXCEPT !.keysBusy = TRUE]
<1>1. /\ p \in Pages /\ p.keyReveal = page.keyReveal /\ p.keysBusy
      /\ p.demoState = page.demoState /\ p.activeAngelId = page.activeAngelId
  BY DEF DashboardInv, DashboardTypeOK, Pages
<1>2. Context(page) \in Contexts
  BY DEF ClickKey, Selected, Context, Contexts, DashboardInv, DashboardTypeOK, Pages, Views
<1>3. /\ tasks' \in Tasks /\ tasks'.action = tasks.action /\ tasks'.load = tasks.load
      /\ KeyTaskOK(tasks'.key, cloud.secrets)
  BY <1>2 DEF ClickKey, DashboardInv, DashboardTypeOK, Tasks, KeyTasks, KeyTaskOK
<1>4. Paint(RenderKeys(p, dom)) /\ cloud' = cloud /\ Selected(page)
  BY DEF ClickKey
<1> HIDE DEF p
<1>5. Paintable(p, dom, tasks')
  BY <1>1, <1>3, <1>4 DEF DashboardInv, Locked, Paintable, Selected
<1> QED
  BY <1>1, <1>3, <1>4, <1>5, KeysStep

(* A key that is minted leaves the secrets before it what they were.       *)
LEMMA SecretsGrow ==
  ASSUME NEW secrets \in Seq(Contexts), NEW context \in Contexts
  PROVE  LET longer == Append(secrets, context) IN
           /\ longer \in Seq(Contexts)
           /\ Len(secrets) + 1 \in Nat /\ Len(secrets) + 1 # 0
           /\ Len(secrets) + 1 \in DOMAIN longer /\ longer[Len(secrets) + 1] = context
           /\ \A s \in DOMAIN secrets : s \in DOMAIN longer /\ longer[s] = secrets[s]
OBVIOUS

LEMMA CommitKeyStep == ASSUME DashboardInv, CommitKey PROVE DashboardInv'
<1>1. /\ tasks \in Tasks /\ cloud \in Clouds /\ tasks.key \in KeyTasks
      /\ cloud.secrets \in Seq(Contexts)
  BY DEF CommitKey, KeyStage, DashboardInv, DashboardTypeOK, Tasks, Clouds
<1>2. page' = page /\ dom' = dom
  BY DEF CommitKey
<1>3. CASE tasks.key.mints /\ tasks.key.secret = 0
  <2> DEFINE longer == Append(cloud.secrets, tasks.key.context)
             minting == Len(cloud.secrets) + 1
  <2>1. tasks.key.context \in Contexts
    BY <1>1 DEF KeyTasks
  <2>2. /\ longer \in Seq(Contexts) /\ minting \in Nat /\ minting # 0
        /\ minting \in DOMAIN longer /\ longer[minting] = tasks.key.context
        /\ \A s \in DOMAIN cloud.secrets : s \in DOMAIN longer /\ longer[s] = cloud.secrets[s]
    BY <1>1, <2>1, SecretsGrow
  <2>3. /\ cloud' = [cloud EXCEPT !.secrets = longer]
        /\ tasks' = [tasks EXCEPT !.key.stage = "committed", !.key.secret = minting]
    BY <1>3 DEF CommitKey
  <2> HIDE DEF longer, minting
  <2>4. cloud' \in Clouds /\ cloud'.secrets = longer
    BY <1>1, <2>2, <2>3 DEF Clouds
  <2>5. /\ tasks' \in Tasks /\ tasks'.action = tasks.action /\ tasks'.load = tasks.load
        /\ tasks'.key.secret = minting /\ tasks'.key.context = tasks.key.context
    BY <1>1, <2>2, <2>3 DEF Tasks, KeyTasks
  <2>6. RevealOK(page', cloud'.secrets) /\ ShownOK(page', dom', cloud'.secrets)
    BY <1>2, <2>2, <2>4 DEF DashboardInv, RevealOK, ShownOK
  <2>7. KeyTaskOK(tasks'.key, cloud'.secrets)
    BY <2>2, <2>4, <2>5 DEF KeyTaskOK
  <2>8. Locked(page', dom', tasks')
    BY <1>2, <2>5 DEF DashboardInv, Locked, CommitKey, KeyStage
  <2> QED
    BY <1>2, <2>4, <2>5, <2>6, <2>7, <2>8 DEF DashboardInv, DashboardTypeOK
<1>4. CASE ~(tasks.key.mints /\ tasks.key.secret = 0)
  <2>1. cloud' = cloud /\ tasks' = [tasks EXCEPT !.key.stage = "committed"]
    BY <1>4 DEF CommitKey
  <2>2. /\ tasks' \in Tasks /\ tasks'.action = tasks.action /\ tasks'.load = tasks.load
        /\ tasks'.key.secret = tasks.key.secret /\ tasks'.key.context = tasks.key.context
        /\ tasks'.key.mints = tasks.key.mints
    BY <1>1, <2>1 DEF Tasks, KeyTasks
  <2>3. KeyTaskOK(tasks'.key, cloud'.secrets)
    BY <1>4, <2>1, <2>2 DEF DashboardInv, KeyTaskOK, CommitKey, KeyStage
  <2>4. Locked(page', dom', tasks')
    BY <1>2, <2>2 DEF DashboardInv, Locked, CommitKey, KeyStage
  <2> QED
    BY <1>2, <2>1, <2>2, <2>3, <2>4 DEF DashboardInv, DashboardTypeOK
<1> QED
  BY <1>3, <1>4

LEMMA KeyRequestLostStep == ASSUME DashboardInv, KeyRequestLost PROVE DashboardInv'
<1>1. tasks \in Tasks /\ tasks.key \in KeyTasks /\ tasks.key # Null
  BY DEF KeyRequestLost, KeyStage, DashboardInv, DashboardTypeOK, Tasks
<1>2. tasks' = [tasks EXCEPT !.key.attempt = 1, !.key.stage = "sent"]
  BY DEF KeyRequestLost
<1>3. /\ tasks' \in Tasks /\ tasks'.action = tasks.action /\ tasks'.load = tasks.load
      /\ tasks'.key \in KeyTasks /\ tasks'.key.stage = "sent"
      /\ tasks'.key.secret = tasks.key.secret /\ tasks'.key.context = tasks.key.context
      /\ tasks'.key = [tasks.key EXCEPT !.attempt = 1, !.stage = "sent"]
  BY <1>1, <1>2 DEF Tasks, KeyTasks
<1>4. DashboardTypeOK' /\ KeyTaskOK(tasks'.key, cloud'.secrets)
  BY <1>1, <1>3 DEF KeyRequestLost, DashboardInv, DashboardTypeOK, KeyTaskOK
<1>5. Locked(page', dom', tasks')
  BY <1>1, <1>3 DEF KeyRequestLost, DashboardInv, Locked
<1> QED
  BY <1>4, <1>5 DEF KeyRequestLost, DashboardInv

LEMMA KeyAnsweredStep == ASSUME DashboardInv, KeyAnswered PROVE DashboardInv'
<1>1. /\ tasks \in Tasks /\ tasks.key \in KeyTasks /\ tasks.key # Null
      /\ tasks.key.stage = "committed"
  BY DEF KeyAnswered, KeyStage, DashboardInv, DashboardTypeOK, Tasks
<1>2. tasks' = [tasks EXCEPT !.key.stage = "refreshing"] /\ cloud' = cloud /\ dom' = dom
  BY DEF KeyAnswered
<1>3. /\ tasks' \in Tasks /\ tasks'.action = tasks.action /\ tasks'.load = tasks.load
      /\ tasks'.key \in KeyTasks /\ tasks'.key.stage = "refreshing"
      /\ tasks'.key.secret = tasks.key.secret /\ tasks'.key.context = tasks.key.context
  BY <1>1, <1>2 DEF Tasks, KeyTasks
<1>4. KeyTaskOK(tasks'.key, cloud'.secrets)
  BY <1>1, <1>2, <1>3 DEF DashboardInv, KeyTaskOK
<1>5. /\ page' \in Pages /\ page'.demoState = page.demoState
      /\ page'.activeAngelId = page.activeAngelId
      /\ page'.activeEnvironment = page.activeEnvironment /\ page'.keysBusy = page.keysBusy
  BY <1>1 DEF KeyAnswered, DashboardInv, DashboardTypeOK, Pages, KeyTasks
<1>6. RevealOK(page', cloud.secrets)
  <2>1. CASE tasks.key.mints
    <3> DEFINE held == [secret |-> tasks.key.secret, context |-> tasks.key.context]
    <3>1. page'.keyReveal = held
      BY <2>1 DEF KeyAnswered, DashboardInv, DashboardTypeOK, Pages
    <3>2. tasks.key.secret # 0
      BY <1>1, <2>1 DEF DashboardInv, KeyTaskOK
    <3>3. /\ tasks.key.secret \in DOMAIN cloud.secrets
          /\ cloud.secrets[tasks.key.secret] = tasks.key.context
      BY <1>1, <3>2 DEF DashboardInv, KeyTaskOK
    <3> QED
      BY <3>1, <3>3 DEF RevealOK
  <2>2. CASE ~tasks.key.mints
    BY <2>2 DEF KeyAnswered, DashboardInv, RevealOK
  <2> QED
    BY <2>1, <2>2
<1>7. ShownOK(page', dom', cloud.secrets)
  BY <1>2, <1>5 DEF DashboardInv, ShownOK, Selected, Context
<1>8. Locked(page', dom', tasks')
  BY <1>1, <1>2, <1>3, <1>5 DEF DashboardInv, Locked
<1> QED
  BY <1>2, <1>3, <1>4, <1>5, <1>6, <1>7, <1>8 DEF DashboardInv, DashboardTypeOK

LEMMA ServeRefreshStep == ASSUME DashboardInv, ServeRefresh PROVE DashboardInv'
<1>1. /\ tasks \in Tasks /\ tasks.key \in KeyTasks /\ tasks.key # Null
      /\ tasks.key.stage = "refreshing" /\ ViewNow(cloud) \in Views
  BY ViewType DEF ServeRefresh, KeyStage, DashboardInv, DashboardTypeOK, Tasks
<1>2. tasks' = [tasks EXCEPT !.key.view = ViewNow(cloud)] /\ UNCHANGED <<cloud, page, dom>>
  BY DEF ServeRefresh
<1>3. /\ tasks' \in Tasks /\ tasks'.action = tasks.action /\ tasks'.load = tasks.load
      /\ tasks'.key \in KeyTasks /\ tasks'.key.stage = "refreshing"
      /\ tasks'.key.secret = tasks.key.secret /\ tasks'.key.context = tasks.key.context
  BY <1>1, <1>2 DEF Tasks, KeyTasks
<1>4. KeyTaskOK(tasks'.key, cloud'.secrets) /\ Locked(page', dom', tasks')
  BY <1>1, <1>2, <1>3 DEF DashboardInv, KeyTaskOK, Locked
<1> QED
  BY <1>2, <1>3, <1>4 DEF DashboardInv, DashboardTypeOK

LEMMA KeyRefreshedStep == ASSUME DashboardInv, KeyRefreshed PROVE DashboardInv'
<1> DEFINE p == [page EXCEPT !.demoState = tasks.key.view, !.keysBusy = FALSE]
<1>1. tasks.key.view \in Views
  BY DEF KeyRefreshed, KeyStage, DashboardInv, DashboardTypeOK, Tasks, KeyTasks
<1>2. p \in Pages /\ p.keyReveal = page.keyReveal
  BY <1>1 DEF DashboardInv, DashboardTypeOK, Pages
<1>3. /\ tasks' \in Tasks /\ tasks'.key = Null /\ tasks'.action = tasks.action
      /\ tasks'.load = tasks.load
  BY DEF KeyRefreshed, DashboardInv, DashboardTypeOK, Tasks
<1>4. Paint(RenderKeys(p, dom)) /\ cloud' = cloud
  BY DEF KeyRefreshed
<1> HIDE DEF p
<1>5. Paintable(p, dom, tasks') /\ KeyTaskOK(tasks'.key, cloud.secrets)
  BY <1>3 DEF DashboardInv, Locked, Paintable, KeyTaskOK
<1> QED
  BY <1>2, <1>3, <1>4, <1>5, KeysStep

LEMMA KeyFailsStep == ASSUME DashboardInv, KeyFails PROVE DashboardInv'
<1> DEFINE p == [page EXCEPT !.keysBusy = FALSE]
<1>1. p \in Pages /\ p.keyReveal = page.keyReveal
  BY DEF DashboardInv, DashboardTypeOK, Pages
<1>2. /\ tasks' \in Tasks /\ tasks'.key = Null /\ tasks'.action = tasks.action
      /\ tasks'.load = tasks.load
  BY DEF KeyFails, DashboardInv, DashboardTypeOK, Tasks
<1>3. Paint(RenderKeys(p, dom)) /\ cloud' = cloud
  BY DEF KeyFails
<1> HIDE DEF p
<1>4. Paintable(p, dom, tasks') /\ KeyTaskOK(tasks'.key, cloud.secrets)
  BY <1>2 DEF DashboardInv, Locked, Paintable, KeyTaskOK
<1> QED
  BY <1>1, <1>2, <1>3, <1>4, KeysStep

LEMMA ClickActionStep ==
  ASSUME DashboardInv, NEW kind \in {"promote", "availability"}, ClickAction(kind)
  PROVE  DashboardInv'
<1>1. /\ tasks \in Tasks /\ tasks.action = Null /\ tasks.load = Null
      /\ page \in Pages /\ page' = page /\ cloud' = cloud
  BY DEF ClickAction, Paint, DashboardInv, DashboardTypeOK, Locked
<1>2. CASE Selected(page)
  <2> DEFINE action == RunAction(kind)
  <2>1. /\ action.kind = kind /\ action.angel = page.activeAngelId /\ action.view = Null
        /\ action \in [kind : {"promote", "availability"}, angel : Angels \cup {Null},
                       view : Views \cup {Null}, staged : Nat]
    <3>1. page.demoState.ready[page.activeAngelId] \in Nat
      BY <1>1, <1>2 DEF Selected, Pages, Views
    <3> QED
      BY <1>1, <3>1 DEF RunAction, Pages
  <2>2. tasks' = [tasks EXCEPT !.action = action] /\ dom' = SetBusy(dom, TRUE)
    BY <1>2 DEF ClickAction, Paint
  <2> HIDE DEF action
  <2>3. tasks' \in Tasks /\ tasks'.key = tasks.key /\ tasks'.load = Null
    BY <1>1, <2>1, <2>2 DEF Tasks
  <2>4. /\ dom' \in Doms /\ dom'.secret = dom.secret /\ dom'.keysEnabled = dom.keysEnabled
        /\ dom'.busy /\ ~dom'.enabled /\ dom'.blocked = dom.blocked
    BY <2>2 DEF SetBusy, SetActionControls, DashboardInv, DashboardTypeOK, Doms
  <2>5. Locked(page', dom', tasks')
    BY <1>1, <2>3, <2>4 DEF ClickAction, Usable, DashboardInv, Locked
  <2> QED
    BY <1>1, <2>3, <2>4, <2>5, PlainStep
<1>3. CASE ~Selected(page)
  <2>1. tasks' = tasks /\ dom' = [dom EXCEPT !.blocked = TRUE]
    BY <1>3 DEF ClickAction, Paint
  <2>2. /\ dom' \in Doms /\ dom'.secret = dom.secret /\ dom'.keysEnabled = dom.keysEnabled
    BY <2>1 DEF DashboardInv, DashboardTypeOK, Doms
  <2>3. Locked(page', dom', tasks')
    BY <1>1, <2>1, <2>2 DEF DashboardInv, Locked
  <2> QED
    BY <1>1, <2>1, <2>2, <2>3, PlainStep
<1> QED
  BY <1>2, <1>3

LEMMA ServeActionStep == ASSUME DashboardInv, ServeAction PROVE DashboardInv'
<1>1. /\ tasks \in Tasks /\ cloud \in Clouds /\ tasks.action # Null
      /\ tasks.action.angel \in Angels
  BY DEF ServeAction, DashboardInv, DashboardTypeOK, Tasks, Clouds
<1>2. cloud' \in Clouds /\ cloud'.secrets = cloud.secrets
  <2>1. CASE cloud' = cloud
    BY <1>1, <2>1
  <2>2. CASE cloud' = [cloud EXCEPT !.staged[tasks.action.angel] = 0]
    BY <1>1, <2>2 DEF Clouds
  <2> QED
    BY <2>1, <2>2 DEF ServeAction
<1>3. tasks' = [tasks EXCEPT !.action.view = ViewNow(cloud')] /\ ViewNow(cloud') \in Views
  BY <1>2, ViewType DEF ServeAction
<1>4. tasks' \in Tasks /\ tasks'.key = tasks.key /\ tasks'.load = tasks.load
  BY <1>1, <1>3 DEF Tasks
<1>5. page' = page /\ dom' = dom
  BY DEF ServeAction
<1>6. Locked(page', dom', tasks')
  BY <1>1, <1>4, <1>5 DEF DashboardInv, Locked
<1> QED
  BY <1>2, <1>4, <1>5, <1>6 DEF DashboardInv, DashboardTypeOK

LEMMA ActionAnsweredStep == ASSUME DashboardInv, ActionAnswered PROVE DashboardInv'
<1> DEFINE p == [page EXCEPT !.demoState = tasks.action.view]
           d == [dom EXCEPT !.blocked = FALSE, !.busy = FALSE]
           shown == Render(p, d)
<1>1. tasks.action.view \in Views /\ tasks.action.view # Null
  BY DEF ActionAnswered, DashboardInv, DashboardTypeOK, Tasks
<1>2. /\ tasks' \in Tasks /\ tasks'.key = tasks.key /\ tasks'.action = Null
      /\ tasks'.load = Null
  BY DEF ActionAnswered, DashboardInv, DashboardTypeOK, Tasks, Locked
<1>3. /\ p \in Pages /\ p.demoState = tasks.action.view /\ p.keysBusy = page.keysBusy
      /\ p.keyReveal = page.keyReveal
  BY <1>1 DEF DashboardInv, DashboardTypeOK, Pages
<1>4. d \in Doms /\ d.keysEnabled = dom.keysEnabled
  BY DEF DashboardInv, DashboardTypeOK, Doms
<1>5. page' = shown.page /\ dom' = shown.dom /\ cloud' = cloud
  BY DEF ActionAnswered, Paint
<1> HIDE DEF p, d
<1>6. Painted(p, d, page', dom')
  BY <1>1, <1>3, <1>4, <1>5, AllPainted
<1>7. RevealOK(p, cloud.secrets) /\ KeyTaskOK(tasks'.key, cloud.secrets)
  BY <1>2, <1>3 DEF DashboardInv, RevealOK
<1>8. Paintable(p, d, tasks')
  BY <1>2, <1>3, <1>4 DEF DashboardInv, Locked, Paintable
<1> QED
  BY <1>2, <1>3, <1>4, <1>5, <1>6, <1>7, <1>8, PaintStep

LEMMA ActionFailsStep == ASSUME DashboardInv, ActionFails PROVE DashboardInv'
<1>1. /\ tasks' \in Tasks /\ tasks'.key = tasks.key /\ tasks'.action = Null
      /\ tasks'.load = Null
  BY DEF ActionFails, DashboardInv, DashboardTypeOK, Tasks, Locked
<1>2. /\ dom' \in Doms /\ dom'.secret = dom.secret /\ dom'.keysEnabled = dom.keysEnabled
  BY DEF ActionFails, Paint, SetBusy, SetActionControls, DashboardInv, DashboardTypeOK, Doms
<1>3. page' = page /\ cloud' = cloud
  BY DEF ActionFails, Paint
<1>4. Locked(page', dom', tasks')
  BY <1>1, <1>2, <1>3 DEF DashboardInv, Locked
<1> QED
  BY <1>1, <1>2, <1>3, <1>4, PlainStep DEF DashboardInv, DashboardTypeOK

LEMMA CloudChangesStep == ASSUME DashboardInv, CloudChanges PROVE DashboardInv'
<1>1. cloud' \in Clouds /\ cloud'.secrets = cloud.secrets
  <2>1. PICK a \in Angels : CloudCreates(a) \/ CloudDeletes(a) \/ CloudStages(a)
    BY DEF CloudChanges
  <2>2. /\ cloud \in Clouds /\ cloud.changes + 1 \in Nat /\ cloud.angels \cup {a} \subseteq Angels
        /\ cloud.angels \ {a} \subseteq Angels
        /\ [cloud.staged EXCEPT ![a] = 0] \in [Angels -> Nat]
        /\ [cloud.staged EXCEPT ![a] = cloud.changes + 1] \in [Angels -> Nat]
    BY DEF DashboardInv, DashboardTypeOK, Clouds
  <2>3. CASE CloudCreates(a)
    <3>1. cloud' = [cloud EXCEPT !.angels = cloud.angels \cup {a},
                                 !.changes = cloud.changes + 1]
      BY <2>3 DEF CloudCreates
    <3> QED
      BY <2>2, <3>1 DEF Clouds
  <2>4. CASE CloudDeletes(a)
    <3>1. cloud' = [cloud EXCEPT !.angels = cloud.angels \ {a},
                                 !.staged = [cloud.staged EXCEPT ![a] = 0],
                                 !.changes = cloud.changes + 1]
      BY <2>2, <2>4 DEF CloudDeletes, Clouds
    <3> QED
      BY <2>2, <3>1 DEF Clouds
  <2>5. CASE CloudStages(a)
    <3>1. cloud' = [cloud EXCEPT !.staged = [cloud.staged EXCEPT ![a] = cloud.changes + 1],
                                 !.changes = cloud.changes + 1]
      BY <2>2, <2>5 DEF CloudStages, Clouds
    <3> QED
      BY <2>2, <3>1 DEF Clouds
  <2> QED
    BY <2>1, <2>3, <2>4, <2>5
<1>2. page' = page /\ dom' = dom /\ tasks' = tasks
  BY DEF CloudChanges
<1> QED
  BY <1>1, <1>2 DEF DashboardInv, DashboardTypeOK, Locked

LEMMA DashboardStep == DashboardInv /\ [DashboardNext]_dashboardVars => DashboardInv'
<1> SUFFICES ASSUME DashboardInv, [DashboardNext]_dashboardVars PROVE DashboardInv'
  OBVIOUS
<1>1. CASE UNCHANGED dashboardVars
  BY <1>1 DEF dashboardVars, DashboardInv, DashboardTypeOK, Locked
<1>2. CASE ServeLoad \/ Loaded \/ LoadFails \/ ClickRetry
  BY <1>2, ServeLoadStep, LoadedStep, LoadFailsStep, ClickRetryStep
<1>3. ASSUME NEW a \in Angels, ClickAngel(a) PROVE DashboardInv'
  BY <1>3, ClickAngelStep
<1>4. ASSUME NEW route \in Routes, Navigate(route) PROVE DashboardInv'
  BY <1>4, NavigateStep
<1>5. ASSUME NEW pane \in Panes, ClickPane(pane) PROVE DashboardInv'
  BY <1>5, ClickPaneStep
<1>6. ASSUME NEW e \in Environments, ClickEnvironment(e) PROVE DashboardInv'
  BY <1>6, ClickEnvironmentStep
<1>7. CASE ToggleKeyForm
  BY <1>7, ToggleKeyFormStep
<1>8. ASSUME NEW mints \in BOOLEAN, ClickKey(mints) PROVE DashboardInv'
  BY <1>8, ClickKeyStep
<1>9. CASE CommitKey \/ KeyRequestLost \/ KeyAnswered
  BY <1>9, CommitKeyStep, KeyRequestLostStep, KeyAnsweredStep
<1>10. CASE ServeRefresh \/ KeyRefreshed \/ KeyFails
  BY <1>10, ServeRefreshStep, KeyRefreshedStep, KeyFailsStep
<1>11. ASSUME NEW kind \in {"promote", "availability"}, ClickAction(kind) PROVE DashboardInv'
  BY <1>11, ClickActionStep
<1>12. CASE ServeAction \/ ActionAnswered \/ ActionFails
  BY <1>12, ServeActionStep, ActionAnsweredStep, ActionFailsStep
<1>13. CASE CloudChanges
  BY <1>13, CloudChangesStep
<1> QED
  BY <1>1, <1>2, <1>3, <1>4, <1>5, <1>6, <1>7, <1>8, <1>9, <1>10, <1>11, <1>12, <1>13
  DEF DashboardNext, Environments

LEMMA DashboardInvariant == DashboardSpec => []DashboardInv
<1> QED
  BY DashboardInitial, DashboardStep, PTL DEF DashboardSpec

(* A secret is only ever visible where it was minted: under its Angel and  *)
(* in its environment, whatever was opened while it was on its way.        *)
THEOREM SecretsStayInTheirContext == DashboardSpec => []SecretInItsContext
<1>1. DashboardInv => SecretInItsContext
  BY DEF DashboardInv, SecretInItsContext, ShownOK, Visible
<1> QED
  BY <1>1, DashboardInvariant, PTL

(* The painted controls are locked while what they start is under way,     *)
(* whatever repaints them meanwhile.                                       *)
THEOREM ActionsNeverOverlap == DashboardSpec => []ActionsDoNotOverlap
<1>1. DashboardInv => ActionsDoNotOverlap
  BY DEF DashboardInv, Locked, ActionsDoNotOverlap
<1> QED
  BY <1>1, DashboardInvariant, PTL

-----------------------------------------------------------------------------
(* The Connections page.                                                   *)

RowJobs ==
  [stage : {"none", "sent", "served", "listing", "listed"},
   action : {"load", "reauthorize", "revoke", "remove"},
   on : Stored \cup {NoConnection}, row : Stored \cup {NoConnection}, list : SUBSET Stored]

ConnectionsPageInv ==
  /\ custody \in SUBSET Stored
  /\ DOMAIN rows \in SUBSET Stored
  /\ rows \in [DOMAIN rows -> BOOLEAN]
  /\ jobs \in [Jobs -> RowJobs]
  /\ RowsLockTheirActions

LEMMA JobTypes ==
  /\ NoJob \in RowJobs /\ NoJob.row = NoConnection
  /\ LoadJob \in RowJobs /\ LoadJob.row = NoConnection
<1>1. NoJob \in RowJobs /\ NoJob.row = NoConnection
  BY DEF NoJob, RowJobs
<1>2. LoadJob \in RowJobs /\ LoadJob.row = NoConnection
  BY <1>1 DEF LoadJob, RowJobs
<1> QED
  BY <1>1, <1>2

(* Rows that are all new are locked by nobody.                             *)
LEMMA NewRows ==
  ASSUME jobs' \in [Jobs -> RowJobs], \A i \in Jobs : jobs'[i].row = NoConnection,
         custody' \in SUBSET Stored,
         NEW shown \in SUBSET Stored, rows' = [c \in shown |-> FALSE]
  PROVE  ConnectionsPageInv'
<1>1. \A c \in Stored : Locking(c)' = {}
  BY NoConnectionAssumption DEF Locking
<1> QED
  BY <1>1 DEF ConnectionsPageInv, RowsLockTheirActions

LEMMA RepaintStep ==
  ASSUME ConnectionsPageInv, NEW j \in Jobs, NEW shown \in SUBSET Stored, Repaint(j, shown),
         custody' = custody
  PROVE  ConnectionsPageInv'
<1>1. ASSUME NEW i \in Jobs
      PROVE  jobs'[i] \in RowJobs /\ jobs'[i].row = NoConnection
  <2>1. CASE i = j
    BY <2>1, JobTypes DEF Repaint
  <2>2. CASE i # j
    <3>1. jobs'[i] = [jobs[i] EXCEPT !.row = NoConnection] /\ jobs[i] \in RowJobs
      BY <2>2 DEF Repaint, ConnectionsPageInv
    <3> QED
      BY <3>1 DEF RowJobs
  <2> QED
    BY <2>1, <2>2
<1>2. jobs' \in [Jobs -> RowJobs]
  BY <1>1 DEF Repaint
<1> QED
  BY <1>1, <1>2, NewRows DEF Repaint, ConnectionsPageInv

LEMMA OpenedPageStep ==
  ASSUME custody' \in SUBSET Stored, NEW j, rows' = <<>>, jobs' = OpenedPage(j)
  PROVE  ConnectionsPageInv'
<1>1. jobs' \in [Jobs -> RowJobs] /\ \A i \in Jobs : jobs'[i].row = NoConnection
  BY JobTypes DEF OpenedPage
<1>2. rows' = [c \in {} |-> FALSE]
  OBVIOUS
<1> QED
  BY <1>1, <1>2, NewRows

(* A step that puts no job by a row and takes none away from it.           *)
LEMMA SameRows ==
  ASSUME ConnectionsPageInv, rows' = rows, custody' \in SUBSET Stored,
         jobs' \in [Jobs -> RowJobs],
         \A i \in Jobs : jobs'[i].row = jobs[i].row
  PROVE  ConnectionsPageInv'
<1>1. \A c : Locking(c)' = Locking(c)
  BY DEF Locking
<1> QED
  BY <1>1 DEF ConnectionsPageInv, RowsLockTheirActions

LEMMA PressStep ==
  ASSUME ConnectionsPageInv, NEW j \in Jobs, NEW c \in Stored, NEW action \in RowActions,
         PressRowButton(j, c, action)
  PROVE  ConnectionsPageInv'
<1> DEFINE pressed == [NoJob EXCEPT !.stage = "sent", !.action = action, !.on = c, !.row = c]
<1>1. pressed \in RowJobs /\ pressed.row = c
  BY JobTypes DEF RowJobs, RowActions
<1>2. jobs' = [jobs EXCEPT ![j] = pressed] /\ rows' = [rows EXCEPT ![c] = TRUE]
  BY DEF PressRowButton
<1>3. jobs[j] = NoJob /\ c \in DOMAIN rows /\ ~rows[c] /\ custody' = custody
  BY DEF PressRowButton
<1> HIDE DEF pressed
<1>4. jobs' \in [Jobs -> RowJobs]
  BY <1>1, <1>2 DEF ConnectionsPageInv
<1>5. Locking(c) = {}
  BY <1>3 DEF ConnectionsPageInv, RowsLockTheirActions
<1>6. Locking(c)' = {j}
  BY <1>1, <1>2, <1>5 DEF Locking, ConnectionsPageInv
<1>7. \A d \in Stored : d # c => Locking(d)' = Locking(d)
  BY <1>1, <1>2, <1>3, JobTypes, NoConnectionAssumption DEF Locking, ConnectionsPageInv
<1>8. /\ DOMAIN rows' = DOMAIN rows
      /\ rows'[c] = TRUE
      /\ \A d \in DOMAIN rows : d # c => rows'[d] = rows[d]
  BY <1>2, <1>3
<1>9. rows' \in [DOMAIN rows' -> BOOLEAN]
  BY <1>2 DEF ConnectionsPageInv
<1>10. RowsLockTheirActions'
  <2> SUFFICES ASSUME NEW d \in DOMAIN rows
               PROVE  /\ rows'[d] <=> Locking(d)' # {}
                      /\ \A i, k \in Locking(d)' : i = k
    BY <1>8 DEF RowsLockTheirActions
  <2>1. CASE d = c
    BY <2>1, <1>6, <1>8
  <2>2. CASE d # c
    BY <2>2, <1>7, <1>8 DEF ConnectionsPageInv, RowsLockTheirActions
  <2> QED
    BY <2>1, <2>2
<1> QED
  BY <1>3, <1>4, <1>8, <1>9, <1>10 DEF ConnectionsPageInv

(* A job whose row is still painted is the only one that locks it.         *)
LEMMA MutationFailsStep ==
  ASSUME ConnectionsPageInv, NEW j \in Jobs, MutationFails(j)
  PROVE  ConnectionsPageInv'
<1>1. /\ jobs' = [jobs EXCEPT ![j] = NoJob]
      /\ rows' = [c \in DOMAIN rows |-> rows[c] /\ c # jobs[j].row]
      /\ custody' = custody
  BY DEF MutationFails
<1>2. jobs' \in [Jobs -> RowJobs]
  BY <1>1, JobTypes DEF ConnectionsPageInv
<1>3. \A c \in Stored : Locking(c)' = Locking(c) \ {j}
  BY <1>1, JobTypes, NoConnectionAssumption DEF Locking, ConnectionsPageInv
<1>4. DOMAIN rows' = DOMAIN rows /\ rows' \in [DOMAIN rows' -> BOOLEAN]
  BY <1>1
<1>5. RowsLockTheirActions'
  <2> SUFFICES ASSUME NEW c \in DOMAIN rows
               PROVE  /\ rows'[c] <=> Locking(c)' # {}
                      /\ \A i, k \in Locking(c)' : i = k
    BY <1>4 DEF RowsLockTheirActions
  <2>1. /\ rows[c] <=> Locking(c) # {}
        /\ \A i, k \in Locking(c) : i = k
        /\ Locking(c)' = Locking(c) \ {j}
    BY <1>3 DEF ConnectionsPageInv, RowsLockTheirActions
  <2>2. rows'[c] <=> rows[c] /\ j \notin Locking(c)
    BY <1>1 DEF Locking
  <2> QED
    BY <2>1, <2>2
<1> QED
  BY <1>1, <1>2, <1>4, <1>5 DEF ConnectionsPageInv

LEMMA ConnectionsPageStep ==
  ConnectionsPageInv /\ [ConnectionsPageNext]_connectionsPageVars => ConnectionsPageInv'
<1> SUFFICES ASSUME ConnectionsPageInv, [ConnectionsPageNext]_connectionsPageVars
             PROVE  ConnectionsPageInv'
  OBVIOUS
<1>1. custody \in SUBSET Stored /\ jobs \in [Jobs -> RowJobs]
  BY DEF ConnectionsPageInv
<1>2. ASSUME NEW j \in Jobs, NEW c \in Stored, NEW action \in RowActions,
             PressRowButton(j, c, action)
      PROVE  ConnectionsPageInv'
  BY <1>2, PressStep
<1>3. ASSUME NEW j \in Jobs, ServeMutation(j) \/ MutationAnswered(j) PROVE ConnectionsPageInv'
  <2>1. PICK stage \in {"served", "listing"} :
          jobs' = [jobs EXCEPT ![j] = [jobs[j] EXCEPT !.stage = stage]]
    BY <1>3 DEF ServeMutation, MutationAnswered
  <2>2. custody' \in SUBSET Stored /\ rows' = rows
    BY <1>1, <1>3 DEF ServeMutation, MutationAnswered
  <2> DEFINE job == [jobs[j] EXCEPT !.stage = stage]
  <2>3. job \in RowJobs /\ job.row = jobs[j].row
    <3>1. jobs[j] \in RowJobs
      BY <1>1
    <3> QED
      BY <3>1 DEF RowJobs
  <2>4. jobs' = [jobs EXCEPT ![j] = job]
    BY <2>1
  <2> HIDE DEF job
  <2> QED
    BY <1>1, <2>2, <2>3, <2>4, SameRows
<1>4. ASSUME NEW j \in Jobs, ReauthorizationAnswered(j) PROVE ConnectionsPageInv'
  BY <1>1, <1>4, OpenedPageStep DEF ReauthorizationAnswered
<1>5. ASSUME NEW j \in Jobs, MutationFails(j) PROVE ConnectionsPageInv'
  BY <1>5, MutationFailsStep
<1>6. ASSUME NEW j \in Jobs, SaveProviderApp(j) PROVE ConnectionsPageInv'
  <2>1. jobs[j] = NoJob /\ jobs' = [jobs EXCEPT ![j] = LoadJob] /\ UNCHANGED <<custody, rows>>
    BY <1>6 DEF SaveProviderApp
  <2>2. jobs' \in [Jobs -> RowJobs]
    BY <1>1, <2>1, JobTypes
  <2>3. \A i \in Jobs : jobs'[i].row = jobs[i].row
    BY <1>1, <2>1, JobTypes
  <2> QED
    BY <1>1, <2>1, <2>2, <2>3, SameRows
<1>7. ASSUME NEW j \in Jobs, ServeList(j) PROVE ConnectionsPageInv'
  <2>1. /\ jobs' = [jobs EXCEPT ![j] = [jobs[j] EXCEPT !.stage = "listed", !.list = custody]]
        /\ UNCHANGED <<custody, rows>>
    BY <1>1, <1>7 DEF ServeList
  <2> DEFINE job == [jobs[j] EXCEPT !.stage = "listed", !.list = custody]
  <2>2. job \in RowJobs /\ job.row = jobs[j].row
    <3>1. jobs[j] \in RowJobs
      BY <1>1
    <3> QED
      BY <1>1, <3>1 DEF RowJobs
  <2>3. jobs' = [jobs EXCEPT ![j] = job]
    BY <2>1
  <2> HIDE DEF job
  <2> QED
    BY <1>1, <2>1, <2>2, <2>3, SameRows
<1>8. ASSUME NEW j \in Jobs, PaintList(j) \/ ListFails(j) PROVE ConnectionsPageInv'
  <2>1. jobs[j].list \in SUBSET Stored
    BY <1>1 DEF RowJobs
  <2>2. PICK shown \in SUBSET Stored : Repaint(j, shown) /\ custody' = custody
    BY <2>1, <1>8 DEF PaintList, ListFails
  <2> QED
    BY <2>2, RepaintStep
<1>9. ASSUME NEW c \in custody, RemovedElsewhere(c) PROVE ConnectionsPageInv'
  BY <1>1, <1>9, SameRows DEF RemovedElsewhere
<1>10. CASE UNCHANGED connectionsPageVars
  BY <1>1, <1>10, SameRows DEF connectionsPageVars
<1> QED
  BY <1>2, <1>3, <1>4, <1>5, <1>6, <1>7, <1>8, <1>9, <1>10 DEF ConnectionsPageNext

(* A row of the Connections page (runConnectionAction in app.js) is locked *)
(* exactly while the action pressed in it is under way, however many rows  *)
(* and actions there are and whatever repaints the list meanwhile.         *)
THEOREM RowsAlwaysLockTheirActions == ConnectionsPageSpec => []RowsLockTheirActions
<1>1. ConnectionsPageInit => ConnectionsPageInv
  <2> SUFFICES ASSUME ConnectionsPageInit PROVE ConnectionsPageInv
    OBVIOUS
  <2>1. jobs \in [Jobs -> RowJobs] /\ \A i \in Jobs : jobs[i].row = NoConnection
    BY JobTypes DEF ConnectionsPageInit, OpenedPage
  <2>2. custody = Stored /\ rows = <<>> /\ DOMAIN rows = {}
    BY DEF ConnectionsPageInit
  <2> QED
    BY <2>1, <2>2 DEF ConnectionsPageInv, RowsLockTheirActions
<1>2. ConnectionsPageInv => RowsLockTheirActions
  BY DEF ConnectionsPageInv
<1> QED
  BY <1>1, <1>2, ConnectionsPageStep, PTL DEF ConnectionsPageSpec
=============================================================================
