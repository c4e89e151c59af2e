------------------------------ MODULE AgentStack ------------------------------
(* A deployment of the agent plane: lib/agent-stack.ts turns the tool manifests *)
(* and the capability registry into grants and environment variables, and the   *)
(* container built from the same files discovers the tools (discovery.py) and   *)
(* resolves their capabilities.                                                 *)
EXTENDS CapabilityRegistry, Naturals

CONSTANTS
    Dirs,              \* directories under tools/, numbered in path order
    Templates,         \* those whose name begins with an underscore
    RegistryFiles,     \* the contents the registry file is given
    Manifests,         \* the contents a tool.yaml is given
    NoTool,            \* a directory without a tool.yaml
    NoStack,           \* nothing is deployed
    PlatformEnv        \* the variables the stack sets itself

ASSUME StackAssumption ==
    /\ Dirs \subseteq Nat /\ Templates \subseteq Dirs
    /\ RegistryFiles \subseteq RegistryFile
    /\ NoTool \notin Manifests
    /\ \A m \in Manifests :
          m.name \in Nat /\ DOMAIN m.secrets \subseteq Nat /\ m.capabilities \subseteq Capabilities

\* A manifest's fields (names are numbers in alphabetical order):
\*   name; valid (it passes parseIam, parseSecrets, parseEnv, parseCapabilities);
\*   autoRegister; imports (its module loads and has the entrypoints);
\*   destructive ("no", or how the tag is written: "list" or "scalar");
\*   iam (set of statements); secrets (sequence of [name, env]);
\*   env (variable to literal); capabilities (set of names).

VARIABLES
    registry,          \* config/capabilities.yaml in the working tree
    tools,             \* tools/*/tool.yaml in the working tree
    stack              \* what the last successful deployment made, or NoStack

vars == <<registry, tools, stack>>

ToolDirs(ts) == {d \in Dirs \ Templates : ts[d] # NoTool}
-----------------------------------------------------------------------------
(* Synth time: loadToolManifests and the constructor of AgentStack *)

\* No manifest makes loadToolManifests throw.
AllValid(ts) == \A d \in ToolDirs(ts) : ts[d].valid

\* Bug: the manifests are collected in a map by name, the later directory winning.
Bug_ManifestsByName(ts) ==
    {d \in ToolDirs(ts) : \A e \in ToolDirs(ts) : ts[e].name = ts[d].name => e <= d}

\* The directories whose manifests the stack aggregates.
loadToolManifests(ts) == ToolDirs(ts)

\* The order of the aggregation: the sort by name leaves equal names in path order.
Before(ts, d, e) == ts[d].name < ts[e].name \/ (ts[d].name = ts[e].name /\ d < e)

Declarations(ts) ==
    UNION {{[dir |-> d, index |-> k] : k \in DOMAIN ts[d].secrets} : d \in loadToolManifests(ts)}

Declared(ts, x) == ts[x.dir].secrets[x.index]

Arn(m, decl) == <<"arn", m.name, decl.name>>

\* secretLogicalId of two declarations agree: the second construct throws.
\* Of two tools' secrets of one name, CloudFormation refuses the second.
SecretsDistinct(ts) ==
    \A x, y \in Declarations(ts) : Declared(ts, x).name = Declared(ts, y).name => x = y

\* Of the secrets declared for one variable, the last one's ARN stays.
secretEnv(ts) ==
    LET for(v) == {x \in Declarations(ts) : Declared(ts, x).env = v}
        after(y, x) == Before(ts, x.dir, y.dir) \/ (x.dir = y.dir /\ x.index < y.index)
        last(v) == CHOOSE x \in for(v) : ~ \E y \in for(v) : after(y, x)
    IN  [v \in {Declared(ts, x).env : x \in Declarations(ts)} |->
            Arn(ts[last(v).dir], Declared(ts, last(v)))]

literalEnv(ts) ==
    LET for(v) == {d \in loadToolManifests(ts) : v \in DOMAIN ts[d].env}
        last(v) == CHOOSE d \in for(v) : ~ \E e \in for(v) : Before(ts, d, e)
    IN  [v \in UNION {DOMAIN ts[d].env : d \in loadToolManifests(ts)} |-> ts[last(v)].env[v]]

\* environmentVariables of the runtime: later spreads override earlier ones.
environmentVariables(ts) ==
    LET lit == literalEnv(ts)
        sec == secretEnv(ts)
    IN  [v \in DOMAIN lit \cup DOMAIN sec \cup DOMAIN PlatformEnv |->
            IF v \in DOMAIN lit THEN lit[v] ELSE IF v \in DOMAIN sec THEN sec[v] ELSE PlatformEnv[v]]

declaredCapabilities(ts) == UNION {ts[d].capabilities : d \in ToolDirs(ts)}

Synthesizes == Loads(registry) /\ AllValid(tools) /\ Resolves(registry, declaredCapabilities(tools))

\* What the deployment of the working tree consists of.
Deployed ==
    LET declared == declaredCapabilities(tools)
        ms == {tools[d] : d \in loadToolManifests(tools)}
    IN  [registry |-> registry,
         tools |-> tools,
         environment |-> environmentVariables(tools),
         readable |-> {Arn(tools[x.dir], Declared(tools, x)) : x \in Declarations(tools)},
         statements |-> UNION {m.iam : m \in ms},
         assumable |-> resolveAssumeRoleArns(registry, declared),
         autoReads |-> autoGrantReads(registry) /\ declared \cap ReadCapabilities # {}]
-----------------------------------------------------------------------------
(* Run time: discover_tools in the container of the deployment *)

\* The first directory of a name is taken; a tool that is not taken keeps its name.
discover_tools(ts) ==
    LET seen(d) == \E e \in ToolDirs(ts) : e < d /\ ts[e].name = ts[d].name
        found == {d \in ToolDirs(ts) : ~seen(d) /\ ts[d].autoRegister /\ ts[d].imports}
    IN  {[tool |-> ts[d], guarded |-> ts[d].destructive = "list"] : d \in found}

Registered == IF stack = NoStack THEN {} ELSE discover_tools(stack.tools)
-----------------------------------------------------------------------------
Init ==
    /\ registry \in RegistryFiles
    /\ tools = [d \in Dirs |-> NoTool]
    /\ stack = NoStack

EditRegistry == registry' \in RegistryFiles /\ UNCHANGED <<tools, stack>>

EditTool(d) ==
    /\ \E m \in Manifests \cup {NoTool} : tools' = [tools EXCEPT ![d] = m]
    /\ UNCHANGED <<registry, stack>>

\* cdk deploy: synth throws, or CloudFormation refuses, and the old stack stays.
Deploy ==
    /\ IF Synthesizes /\ SecretsDistinct(tools)
       THEN stack' = Deployed
       ELSE UNCHANGED stack
    /\ UNCHANGED <<registry, tools>>

Next == EditRegistry \/ (\E d \in Dirs : EditTool(d)) \/ Deploy

Spec == Init /\ [][Next]_vars
-----------------------------------------------------------------------------
(* Properties *)

\* Every variable keeps its type, and a stack may assume nothing but role ARNs.
StackTypeOK ==
    /\ registry \in RegistryFiles
    /\ tools \in [Dirs -> Manifests \cup {NoTool}]
    /\ stack # NoStack =>
        /\ stack.registry \in RegistryFiles
        /\ stack.tools \in [Dirs -> Manifests \cup {NoTool}]
        /\ stack.assumable \subseteq Roles
        /\ stack.autoReads \in BOOLEAN

\* Whatever role the container resolves for a capability of a deployed manifest, in
\* whatever env, the stack of the same deployment may assume it; and where the container
\* falls back on the hub role, the hub role has the read policy. However the registry is
\* written, this fails for one thing only: a read, with auto_grant_reads spelled `off`
\* (as agent-stack.ts:213 puts it). The container then needs a role that may not have been
\* granted, against capabilities.py:11-13, and the hub role has the read policy all the
\* same.
ResolvedRolesAreGranted ==
    stack # NoStack =>
        \A d \in ToolDirs(stack.tools) : \A c \in stack.tools[d].capabilities :
            /\ \A n \in Envs \cup {NoEnv} :
                  LET r == AssumedRole(stack.registry, c, n)
                  IN  r \in Roles => r \in stack.assumable \/ Divided(stack.registry, c)
            /\ UsesHubSession(stack.registry, c) \/ Divided(stack.registry, c) => stack.autoReads

\* The stack grants no role that the container would never assume: each one is what
\* get_session resolves for a declared capability and some env.
GrantedRolesAreUsed ==
    stack # NoStack =>
        \A r \in stack.assumable :
            \E d \in ToolDirs(stack.tools) : \E c \in stack.tools[d].capabilities :
                \E n \in Envs \cup {NoEnv} : AssumedRole(stack.registry, c, n) = r

\* Some manifest of the deployment sets the variable of a secret to a literal, or
\* declares it for another secret.
Contested(decl) ==
    \E d \in ToolDirs(stack.tools) :
        LET m == stack.tools[d]
        IN  \/ decl.env \in DOMAIN m.env
            \/ \E k \in DOMAIN m.secrets : m.secrets[k].env = decl.env /\ m.secrets[k].name # decl.name

\* discovery.py skips what it cannot read, tool-manifests.ts throws: a tool that the
\* container registers has its statements and its secrets granted, finds each secret's
\* ARN in the secret's variable unless that variable is contested, and each of its
\* capabilities has a session in some env, unless it is a read on which the two readers
\* of the registry are divided (the stack then lets it go unbound).
RegisteredToolsAreProvisioned ==
    \A x \in Registered :
        /\ x.tool.iam \subseteq stack.statements
        /\ \A k \in DOMAIN x.tool.secrets :
              LET decl == x.tool.secrets[k]
              IN  /\ Arn(x.tool, decl) \in stack.readable
                  /\ ~Contested(decl) => stack.environment[decl.env] = Arn(x.tool, decl)
        /\ \A c \in x.tool.capabilities :
              \/ UsesHubSession(stack.registry, c) \/ Divided(stack.registry, c)
              \/ \E n \in Envs \cup {NoEnv} : AssumedRole(stack.registry, c, n) \in Roles

\* "Runtime wraps the tool in a confirmation guard" (tools/MANIFEST.md:68): however
\* the tag is written, a registered destructive tool is guarded.
DestructiveToolsAreGuarded ==
    \A x \in Registered : x.tool.destructive # "no" => x.guarded
=============================================================================
