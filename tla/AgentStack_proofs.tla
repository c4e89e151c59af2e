-------------------------- MODULE AgentStack_proofs --------------------------
(* The grants of a deployment against what its container resolves, for any set *)
(* of capabilities, envs, roles, registry contents and manifests, however      *)
(* auto_grant_reads is spelled.                                                *)
EXTENDS AgentStack, TLAPS

\* The two readers agree on which capabilities the hub role serves, but for the one
\* spelling that YAML 1.1 and YAML 1.2 read differently.
LEMMA FlagsAgree ==
  ASSUME NEW f \in RegistryFiles, NEW c
  PROVE  AutoGranted(f, c) <=> UsesHubSession(f, c) \/ Divided(f, c)
BY StackAssumption DEF UsesHubSession, Divided, AutoGranted, auto_grant_reads,
   autoGrantReads, RegistryFile, Spellings

\* The container only sends a bound capability to the hub role if the stack did.
LEMMA HubOnlyIfAuto ==
  ASSUME NEW f, NEW c, UsesHubSession(f, c)
  PROVE  AutoGranted(f, c)
BY DEF UsesHubSession, AutoGranted, auto_grant_reads, autoGrantReads

\* A role the container resolves for a declared capability is in the stack's grants.
LEMMA ResolvedIsGranted ==
  ASSUME NEW f \in RegistryFiles, NEW declared, NEW c \in declared,
         NEW n \in Envs \cup {NoEnv}, AssumedRole(f, c, n) \in Roles, ~Divided(f, c)
  PROVE  AssumedRole(f, c, n) \in resolveAssumeRoleArns(f, declared)
<1>1. ~UsesHubSession(f, c) /\ AssumedRole(f, c, n) = resolve_role_arn(f, c, n)
  BY RegistryAssumption DEF AssumedRole
<1>2. ~AutoGranted(f, c)
  BY <1>1, FlagsAgree
<1>3. \/ AssumedRole(f, c, n) = f.capabilities[c].role
      \/ \E e \in Envs : AssumedRole(f, c, n) = f.capabilities[c].envs[e]
  BY <1>1, RegistryAssumption DEF resolve_role_arn
<1> QED
  BY <1>2, <1>3 DEF resolveAssumeRoleArns

\* A role in the grants is the one the container resolves for some env, or for none.
LEMMA GrantedIsResolved ==
  ASSUME NEW f \in RegistryFiles, Loads(f), NEW declared \in SUBSET Capabilities,
         Resolves(f, declared), NEW r \in resolveAssumeRoleArns(f, declared)
  PROVE  \E c \in declared : \E n \in Envs \cup {NoEnv} : AssumedRole(f, c, n) = r
<1>1. PICK c \in declared :
         /\ ~AutoGranted(f, c)
         /\ r = f.capabilities[c].role \/ \E n \in Envs : r = f.capabilities[c].envs[n]
  BY DEF resolveAssumeRoleArns
<1>2. r \in Roles
  BY DEF resolveAssumeRoleArns
<1>3. f.capabilities[c].kind = "mapping"
  BY <1>1 DEF Resolves, Loads, WellFormed
<1>4. ~UsesHubSession(f, c)
  BY <1>1, HubOnlyIfAuto
<1>5. CASE r = f.capabilities[c].role
  <2>1. resolve_role_arn(f, c, NoEnv) = r
    BY <1>3, <1>5 DEF resolve_role_arn
  <2> QED
    BY <1>4, <2>1 DEF AssumedRole
<1>6. ASSUME NEW n \in Envs, r = f.capabilities[c].envs[n]
      PROVE  AssumedRole(f, c, n) = r
  <2>1. n \in Listed(f.capabilities[c]) /\ n # NoEnv
    BY <1>2, <1>6, RegistryAssumption DEF Listed
  <2>2. resolve_role_arn(f, c, n) = r
    BY <1>3, <1>6, <2>1 DEF resolve_role_arn
  <2> QED
    BY <1>4, <2>2 DEF AssumedRole
<1> QED
  BY <1>1, <1>5, <1>6
-----------------------------------------------------------------------------
(* The inductive invariant: what a deployment recorded it computed from one     *)
(* registry file and one set of manifests, both of which passed the checks.     *)

Computed(s) ==
  LET declared == declaredCapabilities(s.tools)
  IN  /\ s.registry \in RegistryFiles
      /\ s.tools \in [Dirs -> Manifests \cup {NoTool}]
      /\ Loads(s.registry) /\ Resolves(s.registry, declared)
      /\ s.assumable = resolveAssumeRoleArns(s.registry, declared)
      /\ s.autoReads = (autoGrantReads(s.registry) /\ declared \cap ReadCapabilities # {})
      /\ SecretsDistinct(s.tools)
      /\ s.environment = environmentVariables(s.tools)
      /\ s.readable = {Arn(s.tools[x.dir], Declared(s.tools, x)) : x \in Declarations(s.tools)}
      /\ s.statements = UNION {m.iam : m \in {s.tools[d] : d \in loadToolManifests(s.tools)}}

IInv ==
  /\ registry \in RegistryFiles
  /\ tools \in [Dirs -> Manifests \cup {NoTool}]
  /\ stack # NoStack => Computed(stack)

LEMMA DeclaredType ==
  ASSUME NEW ts \in [Dirs -> Manifests \cup {NoTool}]
  PROVE  declaredCapabilities(ts) \in SUBSET Capabilities
BY StackAssumption DEF declaredCapabilities, ToolDirs

LEMMA DeployComputes ==
  ASSUME IInv, Synthesizes, SecretsDistinct(tools) PROVE Computed(Deployed)
<1>1. /\ Deployed.registry = registry /\ Deployed.tools = tools
      /\ Deployed.assumable = resolveAssumeRoleArns(registry, declaredCapabilities(tools))
      /\ Deployed.autoReads = (autoGrantReads(registry)
                                /\ declaredCapabilities(tools) \cap ReadCapabilities # {})
      /\ Deployed.environment = environmentVariables(tools)
      /\ Deployed.readable = {Arn(tools[x.dir], Declared(tools, x)) : x \in Declarations(tools)}
      /\ Deployed.statements = UNION {m.iam : m \in {tools[d] : d \in loadToolManifests(tools)}}
  BY DEF Deployed
<1> QED
  BY <1>1 DEF Computed, IInv, Synthesizes

LEMMA Invariance == Spec => []IInv
<1>1. Init => IInv
  BY StackAssumption DEF Init, IInv
<1>2. IInv /\ [Next]_vars => IInv'
  <2> SUFFICES ASSUME IInv, [Next]_vars PROVE IInv'
    OBVIOUS
  <2>1. CASE EditRegistry
    BY <2>1 DEF EditRegistry, IInv
  <2>2. ASSUME NEW d \in Dirs, EditTool(d) PROVE IInv'
    BY <2>2 DEF EditTool, IInv
  <2>3. CASE Deploy
    <3>1. CASE stack' = Deployed /\ Synthesizes /\ SecretsDistinct(tools)
      <4>1. Computed(stack')
        BY <3>1, DeployComputes
      <4> QED
        BY <2>3, <4>1 DEF Deploy, IInv
    <3>2. CASE UNCHANGED stack
      BY <2>3, <3>2 DEF Deploy, IInv
    <3> QED
      BY <2>3, <3>1, <3>2 DEF Deploy
  <2>4. CASE UNCHANGED vars
    BY <2>4 DEF vars, IInv
  <2> QED
    BY <2>1, <2>2, <2>3, <2>4 DEF Next
<1> QED
  BY <1>1, <1>2, PTL DEF Spec

\* Every variable keeps its type, and the stack only grants roles that exist.
THEOREM StackTyped == Spec => []StackTypeOK
<1>1. IInv => StackTypeOK
  BY DEF IInv, Computed, StackTypeOK, resolveAssumeRoleArns
<1> QED
  BY <1>1, Invariance, PTL

\* Every role the container can resolve for a declared capability is granted, and a
\* capability it serves from the hub role has the read policy (agent-stack.ts:182,
\* capabilities.py:153): whatever is edited and however often it is deployed, and however
\* auto_grant_reads is spelled, except that a read's role may be missing where it is `off`.
THEOREM GrantsCover == Spec => []ResolvedRolesAreGranted
<1>1. IInv => ResolvedRolesAreGranted
  <2> SUFFICES ASSUME IInv, stack # NoStack,
                      NEW d \in ToolDirs(stack.tools), NEW c \in stack.tools[d].capabilities
               PROVE  /\ \A n \in Envs \cup {NoEnv} :
                            AssumedRole(stack.registry, c, n) \in Roles =>
                              AssumedRole(stack.registry, c, n) \in stack.assumable \/ Divided(stack.registry, c)
                      /\ UsesHubSession(stack.registry, c) \/ Divided(stack.registry, c) => stack.autoReads
    BY DEF ResolvedRolesAreGranted
  <2>1. Computed(stack)
    BY DEF IInv
  <2>2. c \in declaredCapabilities(stack.tools)
    BY DEF declaredCapabilities
  <2>3. stack.registry \in RegistryFiles
        /\ stack.assumable = resolveAssumeRoleArns(stack.registry, declaredCapabilities(stack.tools))
    BY <2>1 DEF Computed
  <2>4. ASSUME NEW n \in Envs \cup {NoEnv}, AssumedRole(stack.registry, c, n) \in Roles,
               ~Divided(stack.registry, c)
        PROVE  AssumedRole(stack.registry, c, n) \in stack.assumable
    BY <2>2, <2>3, <2>4, ResolvedIsGranted
  <2>5. UsesHubSession(stack.registry, c) \/ Divided(stack.registry, c) => stack.autoReads
    BY <2>1, <2>2, FlagsAgree DEF Computed, AutoGranted
  <2> QED
    BY <2>4, <2>5
<1> QED
  BY <1>1, Invariance, PTL

\* No role is granted that the container would never assume for a declared capability.
THEOREM GrantsAreNeeded == Spec => []GrantedRolesAreUsed
<1>1. IInv => GrantedRolesAreUsed
  <2> SUFFICES ASSUME IInv, stack # NoStack, NEW r \in stack.assumable
               PROVE  \E d \in ToolDirs(stack.tools) : \E c \in stack.tools[d].capabilities :
                         \E n \in Envs \cup {NoEnv} : AssumedRole(stack.registry, c, n) = r
    BY DEF GrantedRolesAreUsed
  <2>1. Computed(stack)
    BY DEF IInv
  <2> DEFINE declared == declaredCapabilities(stack.tools)
  <2>2. declared \in SUBSET Capabilities
    BY <2>1, DeclaredType DEF Computed
  <2>3. /\ stack.registry \in RegistryFiles
        /\ Loads(stack.registry) /\ Resolves(stack.registry, declared)
        /\ stack.assumable = resolveAssumeRoleArns(stack.registry, declared)
    BY <2>1 DEF Computed
  <2>4. PICK c \in declared : \E n \in Envs \cup {NoEnv} : AssumedRole(stack.registry, c, n) = r
    <3> HIDE DEF declared
    <3> QED BY <2>2, <2>3, GrantedIsResolved
  <2>5. PICK d \in ToolDirs(stack.tools) : c \in stack.tools[d].capabilities
    BY DEF declaredCapabilities
  <2> QED
    BY <2>4, <2>5
<1> QED
  BY <1>1, Invariance, PTL
-----------------------------------------------------------------------------
(* What the container registers against what the deployment provided *)

\* A registered tool is the manifest of one of the directories the stack aggregated.
LEMMA RegisteredIsLoaded ==
  ASSUME NEW x \in Registered
  PROVE  stack # NoStack /\ \E d \in loadToolManifests(stack.tools) : x.tool = stack.tools[d]
<1>1. stack # NoStack /\ x \in discover_tools(stack.tools)
  BY DEF Registered
<1> QED
  BY <1>1 DEF discover_tools, loadToolManifests

\* A variable that one secret declares, and no literal and no other secret, holds its ARN.
LEMMA SoleDeclaration ==
  ASSUME NEW ts \in [Dirs -> Manifests \cup {NoTool}], SecretsDistinct(ts),
         NEW x \in Declarations(ts),
         \A y \in Declarations(ts) :
            Declared(ts, y).env = Declared(ts, x).env => Declared(ts, y).name = Declared(ts, x).name,
         \A d \in loadToolManifests(ts) : Declared(ts, x).env \notin DOMAIN ts[d].env
  PROVE  environmentVariables(ts)[Declared(ts, x).env] = Arn(ts[x.dir], Declared(ts, x))
<1> DEFINE v == Declared(ts, x).env
           for(u) == {y \in Declarations(ts) : Declared(ts, y).env = u}
           after(y, z) == Before(ts, z.dir, y.dir) \/ (z.dir = y.dir /\ z.index < y.index)
           last(u) == CHOOSE z \in for(u) : ~ \E y \in for(u) : after(y, z)
<1>1. for(v) = {x}
  BY DEF SecretsDistinct
<1>2. /\ x.dir \in loadToolManifests(ts) /\ x.index \in DOMAIN ts[x.dir].secrets
      /\ x.dir \in Dirs /\ ts[x.dir] \in Manifests
  BY DEF Declarations, loadToolManifests, ToolDirs
<1>3. ~after(x, x)
  <2>1. x.dir \in Nat /\ x.index \in Nat /\ ts[x.dir].name \in Nat
    BY <1>2, StackAssumption
  <2> QED
    BY <2>1 DEF Before
<1>4. last(v) = x
  <2> HIDE DEF v, after
  <2> QED BY <1>1, <1>3
<1>5. v \in DOMAIN secretEnv(ts) /\ secretEnv(ts)[v] = Arn(ts[last(v).dir], Declared(ts, last(v)))
  BY DEF secretEnv
<1>6. v \notin DOMAIN literalEnv(ts)
  BY DEF literalEnv
<1> QED
  <2> HIDE DEF v
  <2>1. environmentVariables(ts)[v] = secretEnv(ts)[v]
    BY <1>5, <1>6 DEF environmentVariables
  <2> QED
    BY <1>4, <1>5, <2>1 DEF v

\* A capability of a manifest that passed synth has a session: the hub role's, or that of
\* the role bound for one of the listed envs, or for every env.
LEMMA CapabilityHasSession ==
  ASSUME NEW f \in RegistryFiles, Loads(f),
         NEW declared \in SUBSET Capabilities, Resolves(f, declared), NEW c \in declared,
         ~UsesHubSession(f, c), ~Divided(f, c)
  PROVE  \E n \in Envs \cup {NoEnv} : AssumedRole(f, c, n) \in Roles
<1> DEFINE b == f.capabilities[c]
<1>1. b \in Binding /\ b.role \in Roles \cup {NoRole}
      /\ \A n \in Envs : b.envs[n] \in Roles \cup {NoRole, BadRole}
  BY StackAssumption DEF RegistryFile, Binding
<1>2. WellFormed(f, b)
  BY FlagsAgree DEF Loads, Resolves
<1>3. \A n \in Envs \cup {NoEnv} : AssumedRole(f, c, n) = resolve_role_arn(f, c, n)
  BY DEF AssumedRole
<1>4. CASE Listed(b) = {}
  <2>1. b.role \in Roles /\ b.kind = "mapping"
    BY <1>1, <1>2, <1>4 DEF WellFormed
  <2>2. resolve_role_arn(f, c, NoEnv) = b.role
    BY <2>1 DEF resolve_role_arn
  <2> QED
    BY <1>3, <2>1, <2>2
<1>5. ASSUME NEW n \in Listed(b) PROVE AssumedRole(f, c, n) \in Roles
  <2>1. n \in Envs /\ n # NoEnv /\ b.envs[n] \in Roles /\ b.kind = "mapping"
    BY <1>1, <1>2, RegistryAssumption DEF WellFormed, Listed
  <2>2. resolve_role_arn(f, c, n) = b.envs[n]
    BY <2>1 DEF resolve_role_arn
  <2> QED
    BY <1>3, <2>1, <2>2
<1> QED
  BY <1>4, <1>5 DEF Listed

\* What discovery.py registers the stack has provisioned (agent-stack.ts:56-70, 159-193,
\* discovery.py:102-178): its statements, its secrets, the ARN of each secret in a variable
\* that nothing else claims, and a session for each of its capabilities, but for a read
\* where auto_grant_reads is spelled `off`.
THEOREM RegisteredToolsProvisioned == Spec => []RegisteredToolsAreProvisioned
<1>1. IInv => RegisteredToolsAreProvisioned
  <2> SUFFICES ASSUME IInv, NEW x \in Registered
               PROVE  /\ x.tool.iam \subseteq stack.statements
                      /\ \A k \in DOMAIN x.tool.secrets :
                            LET decl == x.tool.secrets[k]
                            IN  /\ Arn(x.tool, decl) \in stack.readable
                                /\ ~Contested(decl) => stack.environment[decl.env] = Arn(x.tool, decl)
                      /\ \A c \in x.tool.capabilities :
                            \/ UsesHubSession(stack.registry, c) \/ Divided(stack.registry, c)
                            \/ \E n \in Envs \cup {NoEnv} : AssumedRole(stack.registry, c, n) \in Roles
    BY DEF RegisteredToolsAreProvisioned
  <2> DEFINE ts == stack.tools
  <2>1. Computed(stack)
    BY RegisteredIsLoaded DEF IInv
  <2>2. PICK d \in loadToolManifests(ts) : x.tool = ts[d]
    BY RegisteredIsLoaded
  <2>3. x.tool.iam \subseteq stack.statements
    BY <2>1, <2>2 DEF Computed
  <2>4. ASSUME NEW k \in DOMAIN x.tool.secrets
        PROVE  LET decl == x.tool.secrets[k]
               IN  /\ Arn(x.tool, decl) \in stack.readable
                   /\ ~Contested(decl) => stack.environment[decl.env] = Arn(x.tool, decl)
    <3> DEFINE y == [dir |-> d, index |-> k]
               decl == x.tool.secrets[k]
    <3>1. y \in Declarations(ts) /\ Declared(ts, y) = decl /\ ts[y.dir] = x.tool
      BY <2>2, <2>4 DEF Declarations, Declared
    <3>2. Arn(x.tool, decl) \in stack.readable
      <4> HIDE DEF y, decl
      <4> QED BY <2>1, <3>1 DEF Computed
    <3>3. ASSUME ~Contested(decl) PROVE stack.environment[decl.env] = Arn(x.tool, decl)
      <4>1. \A z \in Declarations(ts) : Declared(ts, z).env = decl.env => Declared(ts, z).name = decl.name
        BY <3>3 DEF Contested, Declarations, Declared, loadToolManifests
      <4>2. \A e \in loadToolManifests(ts) : decl.env \notin DOMAIN ts[e].env
        BY <3>3 DEF Contested, loadToolManifests
      <4>3. ts \in [Dirs -> Manifests \cup {NoTool}] /\ SecretsDistinct(ts)
            /\ stack.environment = environmentVariables(ts)
        BY <2>1 DEF Computed
      <4> HIDE DEF ts, y, decl
      <4> QED
        BY <3>1, <4>1, <4>2, <4>3, SoleDeclaration
    <3> QED
      BY <3>2, <3>3
  <2>5. ASSUME NEW c \in x.tool.capabilities,
               ~UsesHubSession(stack.registry, c), ~Divided(stack.registry, c)
        PROVE  \E n \in Envs \cup {NoEnv} : AssumedRole(stack.registry, c, n) \in Roles
    <3> DEFINE declared == declaredCapabilities(ts)
    <3>1. declared \in SUBSET Capabilities
      BY <2>1, DeclaredType DEF Computed
    <3>2. c \in declared
      BY <2>2, <2>5 DEF declaredCapabilities, loadToolManifests
    <3>3. stack.registry \in RegistryFiles /\ Loads(stack.registry) /\ Resolves(stack.registry, declared)
      BY <2>1 DEF Computed
    <3> HIDE DEF declared
    <3> QED
      BY <2>5, <3>1, <3>2, <3>3, CapabilityHasSession
  <2> QED
    BY <2>3, <2>4, <2>5
<1> QED
  BY <1>1, Invariance, PTL
=============================================================================
