--------------------------- MODULE CapabilityRegistry ---------------------------
(* config/capabilities.yaml and its two readers: the stack, which grants        *)
(* sts:AssumeRole at synth time (lib/capability-registry.ts), and the agent     *)
(* container, which assumes roles at run time (agent-runtime/capabilities.py).  *)
(* Both start from the same text, so the model has one file and two readings.   *)
CONSTANTS
    Capabilities,      \* capability names
    ReadCapabilities,  \* those whose second segment is "read"
    Envs, NoEnv,       \* env names; NoEnv: get_session is called without one
    Roles,             \* role ARNs
    NoRole,            \* no ARN is given
    BadRole            \* an env is listed with an empty string for its ARN

ASSUME RegistryAssumption ==
    /\ ReadCapabilities \subseteq Capabilities
    /\ NoEnv \notin Envs
    /\ NoRole \notin Roles /\ BadRole \notin Roles /\ NoRole # BadRole

\* The spellings of defaults.auto_grant_reads that the two YAML parsers tell apart.
Spellings == {"absent", "true", "false", "off"}

Binding == [kind : {"unbound", "scalar", "mapping"},
            role : Roles \cup {NoRole},
            envs : [Envs -> Roles \cup {NoRole, BadRole}]]

RegistryFile == [flag : Spellings,
                 envs : SUBSET Envs,                 \* the top-level list
                 capabilities : [Capabilities -> Binding]]

Listed(b) == {n \in Envs : b.envs[n] # NoRole}
-----------------------------------------------------------------------------
(* The stack's reading *)

\* The npm package "yaml" reads YAML 1.2, where off and no are strings, and
\* Boolean() of a string that is not empty is true.
autoGrantReads(f) == f.flag # "false"

WellFormed(f, b) ==
    /\ b.kind = "mapping"
    /\ \A n \in Listed(b) : b.envs[n] # BadRole /\ (f.envs = {} \/ n \in f.envs)
    /\ b.role # NoRole \/ Listed(b) # {}

\* loadCapabilityRegistry returns; otherwise it throws and synth fails.
Loads(f) ==
    \A c \in Capabilities :
        f.capabilities[c].kind # "unbound" => WellFormed(f, f.capabilities[c])

AutoGranted(f, c) == autoGrantReads(f) /\ c \in ReadCapabilities

\* resolveAssumeRoleArns returns; otherwise a declared capability is not bound.
Resolves(f, declared) ==
    \A c \in declared : AutoGranted(f, c) \/ f.capabilities[c].kind # "unbound"

\* Bug: env-scoped roles are forgotten.
Bug_OnlySingleBindings(f, declared) ==
    {r \in Roles : \E c \in declared : ~AutoGranted(f, c) /\ r = f.capabilities[c].role}

\* Bug: auto-granted reads are not left out.
Bug_ReadsGrantedTwice(f, declared) ==
    {r \in Roles : \E c \in declared :
        r = f.capabilities[c].role \/ \E n \in Envs : r = f.capabilities[c].envs[n]}

\* Bug: a binding without a roleArn adds one all the same.
Bug_NoRoleGranted(f, declared) ==
    {r \in Roles \cup {NoRole} : \E c \in declared :
        /\ ~AutoGranted(f, c)
        /\ \/ r = f.capabilities[c].role
           \/ r # NoRole /\ \E n \in Envs : r = f.capabilities[c].envs[n]}

resolveAssumeRoleArns(f, declared) ==
    {r \in Roles : \E c \in declared :
        /\ ~AutoGranted(f, c)
        /\ r = f.capabilities[c].role \/ \E n \in Envs : r = f.capabilities[c].envs[n]}
-----------------------------------------------------------------------------
(* The container's reading *)

\* PyYAML reads YAML 1.1, where off and no are false.
auto_grant_reads(f) == f.flag \notin {"false", "off"}

\* get_session returns the default session of the hub role.
UsesHubSession(f, c) == c \in ReadCapabilities /\ auto_grant_reads(f)

\* The role get_session assumes; no member of Roles where it raises instead.
resolve_role_arn(f, c, n) ==
    LET b == f.capabilities[c]
    IN  IF b.kind # "mapping" THEN NoRole
        ELSE IF n # NoEnv /\ Listed(b) # {} THEN b.envs[n]
        ELSE b.role

\* The spelling on which the readers differ: the stack takes `off` for true and grants a
\* read no role, the container takes it for false and resolves the read's role.
Divided(f, c) == f.flag = "off" /\ c \in ReadCapabilities

AssumedRole(f, c, n) == IF UsesHubSession(f, c) THEN NoRole ELSE resolve_role_arn(f, c, n)
=============================================================================
