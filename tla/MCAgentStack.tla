----------------------------- MODULE MCAgentStack -----------------------------
(* Small instances of AgentStack: two directories, a read and a write capability, *)
(* and manifests that meet in names and variables.                                *)
EXTENDS AgentStack, TLC

CONSTANTS iotRead, iotWrite, dev, prod, hubRole, devRole, prodRole, FlagSpellings, Tags

Unbound == [kind |-> "unbound", role |-> NoRole, envs |-> [n \in Envs |-> NoRole]]
Scalar == [Unbound EXCEPT !.kind = "scalar"]
Single(r) == [Unbound EXCEPT !.kind = "mapping", !.role = r]
PerEnv(r, d, p) == [Single(r) EXCEPT !.envs = (dev :> d) @@ (prod :> p)]

\* Of a write: none, malformed, a role per env with and without a default, and a role for
\* an env that the file does not list.  (A read is bound to one role, or not at all.)
MCBindings == {Unbound, Scalar, PerEnv(NoRole, devRole, NoRole),
               PerEnv(hubRole, devRole, NoRole), PerEnv(NoRole, devRole, prodRole)}

File(fl, es, r, w) ==
    [flag |-> fl, envs |-> es, capabilities |-> (iotRead :> r) @@ (iotWrite :> w)]

\* Reads are granted, or not, or the two parsers differ on it.
MCRegistryFiles ==
    {File(fl, {dev}, r, w) : fl \in FlagSpellings, r \in {Unbound, Single(hubRole)},
                             w \in MCBindings}
        \cup {File("true", {}, Unbound, PerEnv(NoRole, devRole, prodRole))}

Tool(n, caps) ==
    [name |-> n, valid |-> TRUE, autoRegister |-> TRUE, imports |-> TRUE,
     destructive |-> "no", iam |-> {}, secrets |-> <<>>, env |-> <<>>, capabilities |-> caps]

MCManifests ==
    {[Tool(1, {}) EXCEPT !.valid = FALSE],
     [Tool(1, {iotRead}) EXCEPT !.iam = {"ses"}],
     [Tool(1, {iotWrite}) EXCEPT !.imports = FALSE],
     [Tool(2, {iotRead, iotWrite}) EXCEPT !.secrets = <<[name |-> "key", env |-> "KEY_ARN"]>>],
     [Tool(4, {}) EXCEPT !.secrets = <<[name |-> "token", env |-> "TOKEN_ARN"],
                                       [name |-> "spare", env |-> "KEY_ARN"]>>]}
    \cup {[Tool(3, {}) EXCEPT !.destructive = tag, !.env = ("KEY_ARN" :> <<"literal">>),
                              !.autoRegister = (tag # "no")] : tag \in Tags}

MCPlatformEnv == "SESSION_TABLE_NAME" :> <<"table">>
=============================================================================
